---- MODULE Spec2Model ----
(***************************************************************************)
(* Model of the chunked AES-256-GCM codec of keyring-vcm: key derivation,  *)
(* AAD construction, the frame codec, the encrypt/decrypt transform        *)
(* streams, the serializer and the length-prefixed parser, and the buffer  *)
(* and file entry points.                                                  *)
(*                                                                         *)
(* Byte strings are sequences over 0..255.  SHA-256, HMAC-SHA-256 and the  *)
(* GCM keystream and tag are replaced by one small keyed mixing function   *)
(* (Digest) with the right input and output lengths: the model keeps what  *)
(* each primitive is computed FROM, which is what the code decides.        *)
(***************************************************************************)
EXTENDS Integers, Sequences, FiniteSets, TLC

\* ------------------------------------------------------------ constants
KEY_LENGTH == 32
IV_LENGTH == 12
AUTH_TAG_LENGTH == 16
INDEX_SIZE == 4
HEADER_TOTAL_SIZE == 32
MAX_VIDEO_ID_LENGTH == 255
MIN_VIDEO_ID_LENGTH == 1
MAX_CHUNKS_PER_VIDEO == 100000
HKDF_INFO == <<64, 107, 105, 116, 115, 117, 110, 101, 105, 115, 108, 105, 102,
               101, 47, 107, 101, 121, 114, 105, 110, 103, 45, 118, 99, 109,
               45, 118, 49>>

\* ------------------------------------------------------------ bounds
\* longest plaintext handed to one encryptChunk call in the frame-level model
MaxPlain == 2
\* number of distinct values the random IV source can return
NumNonces == 2
\* largest frame index used in the frame-level model
MaxIndex == 1

\* ------------------------------------------------------------ bytes
Byte == 0..255

RECURSIVE Pow2(_)
Pow2(k) == IF k = 0 THEN 1 ELSE 2 * Pow2(k - 1)

\* b with bit k inverted (b ^= 1 << k)
FlipBit(b, k) == IF (b \div Pow2(k)) % 2 = 0 THEN b + Pow2(k) ELSE b - Pow2(k)

\* Buffer.writeUInt32BE
U32BE(n) == <<(n \div 16777216) % 256, (n \div 65536) % 256, (n \div 256) % 256, n % 256>>

\* Buffer.readUInt32BE(0)
ReadU32BE(b) == b[1] * 16777216 + b[2] * 65536 + b[3] * 256 + b[4]

\* a hash tree over x[lo..hi], seeded by s
RECURSIVE Absorb(_, _, _, _)
Absorb(x, lo, hi, s) ==
  IF lo > hi THEN s
  ELSE IF lo = hi THEN ((x[lo] + s + lo) * (x[lo] + s + lo + 1)) % 32749
  ELSE LET mid == (lo + hi) \div 2
           a == Absorb(x, lo, mid, s)
           b == Absorb(x, mid + 1, hi, s)
       IN  ((a + 7) * (b + 13) + a) % 32749

\* n output bytes mixed from every byte of x
Digest(x, n) ==
  LET h == <<Absorb(x, 1, Len(x), 11), Absorb(x, 1, Len(x), 222), Absorb(x, 1, Len(x), 3333)>>
  IN  [j \in 1..n |-> (((h[(j % 3) + 1] + 131 * j) * (h[(j % 3) + 1] + 131 * j)) % 32749) % 256]

Sha256(x) == Digest(x, 32)

HmacSha256(key, data) == Digest(<<Len(key)>> \o key \o data, 32)

\* ------------------------------------------------------------ errors
NoError == [name |-> "none", detail |-> "", index |-> -1]
ValidationError(field) == [name |-> "ValidationError", detail |-> field, index |-> -1]
SecurityError(code) == [name |-> "SecurityError", detail |-> code, index |-> -1]
PlainError(msg) == [name |-> "Error", detail |-> msg, index |-> -1]
AuthFailure(i) == [name |-> "Error", detail |-> "Falha na autenticacao do chunk", index |-> i]

\* ------------------------------------------------------------ validation
\* characters of /^[a-zA-Z0-9\-_:.]+$/
VideoIdChars == (97..122) \cup (65..90) \cup (48..57) \cup {45, 95, 58, 46}

\* a variant of validateMasterKey whose entropy test is uniqueBytes <= 16
validateMasterKey_Floor(masterKey) ==
  IF Len(masterKey) = 0 THEN ValidationError("masterKey")
  ELSE IF Len(masterKey) # KEY_LENGTH THEN ValidationError("masterKey")
  ELSE IF \A i \in 1..Len(masterKey) : masterKey[i] = 0 THEN SecurityError("WEAK_KEY")
  ELSE IF Cardinality({masterKey[i] : i \in 1..Len(masterKey)}) <= 16 THEN SecurityError("WEAK_KEY")
  ELSE NoError

validateMasterKey(masterKey) ==
  IF Len(masterKey) = 0 THEN ValidationError("masterKey")
  ELSE IF Len(masterKey) # KEY_LENGTH THEN ValidationError("masterKey")
  ELSE IF \A i \in 1..Len(masterKey) : masterKey[i] = 0 THEN SecurityError("WEAK_KEY")
  ELSE IF Cardinality({masterKey[i] : i \in 1..Len(masterKey)}) < 16 THEN SecurityError("WEAK_KEY")
  ELSE NoError

validateVideoId(videoId) ==
  IF Len(videoId) = 0 THEN ValidationError("videoId")
  ELSE IF Len(videoId) < MIN_VIDEO_ID_LENGTH THEN ValidationError("videoId")
  ELSE IF Len(videoId) > MAX_VIDEO_ID_LENGTH THEN ValidationError("videoId")
  ELSE IF \E i \in 1..Len(videoId) : videoId[i] \notin VideoIdChars THEN ValidationError("videoId")
  ELSE NoError

\* a variant of validateChunkIndex without the MAX_CHUNKS_PER_VIDEO test
validateChunkIndex_NoCeiling(chunkIndex) ==
  IF chunkIndex < 0 THEN ValidationError("chunkIndex") ELSE NoError

\* a variant of validateChunkIndex that rejects the index MAX_CHUNKS_PER_VIDEO too
validateChunkIndex_AtCeiling(chunkIndex) ==
  IF chunkIndex < 0 THEN ValidationError("chunkIndex")
  ELSE IF chunkIndex >= MAX_CHUNKS_PER_VIDEO THEN SecurityError("TOO_MANY_CHUNKS")
  ELSE NoError

validateChunkIndex(chunkIndex) ==
  IF chunkIndex < 0 THEN ValidationError("chunkIndex")
  ELSE IF chunkIndex > MAX_CHUNKS_PER_VIDEO THEN SecurityError("TOO_MANY_CHUNKS")
  ELSE NoError

validateBuffer(buffer, fieldName) ==
  IF Len(buffer) = 0 THEN ValidationError(fieldName) ELSE NoError

\* secureWipe(buffer): the buffer after buffer.fill(0)
secureWipe(buffer) == [i \in 1..Len(buffer) |-> 0]

\* the first error of a list of validation outcomes, NoError when there is none
RECURSIVE FirstError(_)
FirstError(es) ==
  IF es = <<>> THEN NoError
  ELSE IF Head(es) # NoError THEN Head(es) ELSE FirstError(Tail(es))

\* ------------------------------------------------------------ key hierarchy
deriveVideoKey(masterKey, videoId) ==
  LET salt == Sha256(videoId)
      prk  == HmacSha256(salt, masterKey)
      okm  == HmacSha256(prk, HKDF_INFO \o <<1>>)
  IN  SubSeq(okm, 1, KEY_LENGTH)

\* ------------------------------------------------------------ AAD
\* variants of createAAD that leave one of its two inputs out of the hash
createAAD_NoIndex(videoId, chunkIndex) == Sha256(videoId)
createAAD_NoVideoId(videoId, chunkIndex) == Sha256(U32BE(chunkIndex))

createAAD(videoId, chunkIndex) == Sha256(videoId \o U32BE(chunkIndex))

\* ------------------------------------------------------------ AES-256-GCM
Keystream(key, iv, i) == Digest(key \o iv \o <<i>>, 1)[1]

\* cipher.update(plaintext) ++ cipher.final()
GcmEncrypt(key, iv, plaintext) ==
  [i \in 1..Len(plaintext) |-> (plaintext[i] + Keystream(key, iv, i)) % 256]

\* decipher.update(ciphertext)
GcmDecrypt(key, iv, ciphertext) ==
  [i \in 1..Len(ciphertext) |-> (ciphertext[i] + 256 - Keystream(key, iv, i)) % 256]

\* cipher.getAuthTag()
GcmTag(key, iv, aad, ciphertext) ==
  Digest(key \o iv \o aad \o <<Len(ciphertext)>> \o ciphertext, AUTH_TAG_LENGTH)

\* ------------------------------------------------------------ frame codec
EncryptedChunk(index, iv, tag, ciphertext) ==
  [index |-> index, iv |-> iv, tag |-> tag, ciphertext |-> ciphertext]

NoChunk == EncryptedChunk(-1, <<>>, <<>>, <<>>)

toBuffer(chunk) == U32BE(chunk.index) \o chunk.iv \o chunk.tag \o chunk.ciphertext

\* the frame of a buffer of at least HEADER_TOTAL_SIZE bytes; shorter ones throw
fromBufferOk(buffer) == Len(buffer) >= HEADER_TOTAL_SIZE

fromBuffer(buffer) ==
  EncryptedChunk(ReadU32BE(buffer),
                 SubSeq(buffer, 5, 16),
                 SubSeq(buffer, 17, 32),
                 SubSeq(buffer, 33, Len(buffer)))

\* a variant of the validations of encryptChunk without validateMasterKey(videoKey)
encryptChunkError_NoKeyCheck(plaintext, videoKey, videoId, chunkIndex) ==
  FirstError(<<validateBuffer(plaintext, "plaintext"),
               validateVideoId(videoId),
               validateChunkIndex(chunkIndex)>>)

\* encryptChunk with the IV the random source returned
encryptChunkError(plaintext, videoKey, videoId, chunkIndex) ==
  FirstError(<<validateBuffer(plaintext, "plaintext"),
               validateMasterKey(videoKey),
               validateVideoId(videoId),
               validateChunkIndex(chunkIndex)>>)

encryptChunk(plaintext, videoKey, videoId, chunkIndex, iv) ==
  LET aad == createAAD(videoId, chunkIndex)
      ciphertext == GcmEncrypt(videoKey, iv, plaintext)
  IN  EncryptedChunk(chunkIndex, iv, GcmTag(videoKey, iv, aad, ciphertext), ciphertext)

\* the result of decryptChunk: plaintext, or the error it throws
DecResult(ok, plaintext, err) == [ok |-> ok, plaintext |-> plaintext, err |-> err]

decryptChunk(encryptedChunk, videoKey, videoId) ==
  LET verr == FirstError(<<validateMasterKey(videoKey), validateVideoId(videoId)>>)
      aad == createAAD(videoId, encryptedChunk.index)
  IN  IF verr # NoError THEN DecResult(FALSE, <<>>, verr)
      ELSE IF encryptedChunk.tag # GcmTag(videoKey, encryptedChunk.iv, aad, encryptedChunk.ciphertext)
        THEN DecResult(FALSE, <<>>, AuthFailure(encryptedChunk.index))
      ELSE DecResult(TRUE, GcmDecrypt(videoKey, encryptedChunk.iv, encryptedChunk.ciphertext), NoError)

\* ------------------------------------------------------------ bounds (sessions)
\* the frame size F of the sessions (options.chunkSize)
ChunkSize == 2
\* longest input of an encrypt session, in bytes
MaxData == 5

\* ------------------------------------------------------------ EncryptionStream
\* new EncryptionStream(videoKey, videoId, { chunkSize })
EncryptionStream(videoKey, videoId, chunkSize) ==
  [videoKey |-> videoKey, videoId |-> videoId, chunkSize |-> chunkSize,
   buffer |-> <<>>, chunkIndex |-> 0, bytesProcessed |-> 0,
   pushed |-> <<>>, state |-> "open", error |-> NoError]

\* a variant of the while loop of _transform that runs while the buffer holds
\* more than chunkSize bytes
RECURSIVE encryptionLoop_Late(_, _)
encryptionLoop_Late(st, ivs) ==
  IF Len(st.buffer) <= st.chunkSize THEN st
  ELSE LET chunkData == SubSeq(st.buffer, 1, st.chunkSize)
           rest == SubSeq(st.buffer, st.chunkSize + 1, Len(st.buffer))
           err == encryptChunkError(chunkData, st.videoKey, st.videoId, st.chunkIndex)
       IN  IF err # NoError
             THEN [st EXCEPT !.buffer = rest, !.state = "errored", !.error = err]
             ELSE encryptionLoop_Late(
                    [st EXCEPT !.buffer = rest,
                               !.pushed = Append(@, encryptChunk(chunkData, st.videoKey,
                                                   st.videoId, st.chunkIndex, Head(ivs))),
                               !.chunkIndex = @ + 1,
                               !.bytesProcessed = @ + Len(chunkData)],
                    Tail(ivs))

\* the while loop of _transform; ivs are the IVs the random source returns
RECURSIVE encryptionLoop(_, _)
encryptionLoop(st, ivs) ==
  IF Len(st.buffer) < st.chunkSize THEN st
  ELSE LET chunkData == SubSeq(st.buffer, 1, st.chunkSize)
           rest == SubSeq(st.buffer, st.chunkSize + 1, Len(st.buffer))
           err == encryptChunkError(chunkData, st.videoKey, st.videoId, st.chunkIndex)
       IN  IF err # NoError
             THEN [st EXCEPT !.buffer = rest, !.state = "errored", !.error = err]
             ELSE encryptionLoop(
                    [st EXCEPT !.buffer = rest,
                               !.pushed = Append(@, encryptChunk(chunkData, st.videoKey,
                                                   st.videoId, st.chunkIndex, Head(ivs))),
                               !.chunkIndex = @ + 1,
                               !.bytesProcessed = @ + Len(chunkData)],
                    Tail(ivs))

\* a variant of _transform that seals the whole buffer as one frame once it
\* holds chunkSize bytes
encryptionTransform_NoSlice(st, chunk, ivs) ==
  LET all == st.buffer \o chunk IN
  IF Len(all) < st.chunkSize THEN [st EXCEPT !.buffer = all]
  ELSE [st EXCEPT !.buffer = <<>>,
                  !.pushed = Append(@, encryptChunk(all, st.videoKey, st.videoId,
                                                    st.chunkIndex, Head(ivs))),
                  !.chunkIndex = @ + 1,
                  !.bytesProcessed = @ + Len(all)]

\* EncryptionStream._transform(chunk)
encryptionTransform(st, chunk, ivs) ==
  encryptionLoop([st EXCEPT !.buffer = @ \o chunk], ivs)

\* a variant of _flush that ends without sealing what is left in the buffer
encryptionFlush_NoResidue(st, iv) == [st EXCEPT !.state = "ended"]

\* a variant of _flush that counts the last frame before sealing it
encryptionFlush_CountFirst(st, iv) ==
  IF Len(st.buffer) > 0
    THEN [st EXCEPT !.pushed = Append(@, encryptChunk(st.buffer, st.videoKey,
                                        st.videoId, st.chunkIndex + 1, iv)),
                    !.chunkIndex = @ + 1,
                    !.bytesProcessed = @ + Len(st.buffer),
                    !.buffer = <<>>,
                    !.state = "ended"]
    ELSE [st EXCEPT !.state = "ended"]

\* a variant of _flush that seals and pushes the last frame before validating
\* the arguments of encryptChunk
encryptionFlush_SealFirst(st, iv) ==
  IF Len(st.buffer) > 0
    THEN LET err == encryptChunkError(st.buffer, st.videoKey, st.videoId, st.chunkIndex)
             sealed == encryptChunk(st.buffer, st.videoKey, st.videoId, st.chunkIndex, iv)
         IN  IF err # NoError
               THEN [st EXCEPT !.pushed = Append(@, sealed), !.state = "errored",
                               !.error = err]
               ELSE [st EXCEPT !.pushed = Append(@, sealed),
                               !.chunkIndex = @ + 1,
                               !.bytesProcessed = @ + Len(st.buffer),
                               !.buffer = <<>>,
                               !.state = "ended"]
    ELSE [st EXCEPT !.state = "ended"]

\* a variant of _flush that pushes the last frame without counting it
encryptionFlush_Uncounted(st, iv) ==
  IF Len(st.buffer) > 0
    THEN [st EXCEPT !.pushed = Append(@, encryptChunk(st.buffer, st.videoKey,
                                        st.videoId, st.chunkIndex, iv)),
                    !.buffer = <<>>,
                    !.state = "ended"]
    ELSE [st EXCEPT !.state = "ended"]

\* EncryptionStream._flush()
encryptionFlush(st, iv) ==
  IF Len(st.buffer) > 0
    THEN LET err == encryptChunkError(st.buffer, st.videoKey, st.videoId, st.chunkIndex)
         IN  IF err # NoError
               THEN [st EXCEPT !.state = "errored", !.error = err]
               ELSE [st EXCEPT !.pushed = Append(@, encryptChunk(st.buffer, st.videoKey,
                                                   st.videoId, st.chunkIndex, iv)),
                               !.chunkIndex = @ + 1,
                               !.bytesProcessed = @ + Len(st.buffer),
                               !.buffer = <<>>,
                               !.state = "ended"]
    ELSE [st EXCEPT !.state = "ended"]

\* EncryptionStream.getStats()
encryptionStats(st) == [totalChunks |-> st.chunkIndex, bytesProcessed |-> st.bytesProcessed]

\* ------------------------------------------------------------ ChunkSerializationStream
\* ChunkSerializationStream._transform(encryptedChunk): what it pushes
serializationTransform(encryptedChunk) == toBuffer(encryptedChunk)

\* ------------------------------------------------------------ ChunkDeserializationStream
ChunkDeserializationStream ==
  [buffer |-> <<>>, pushed |-> <<>>, state |-> "open", error |-> NoError]

\* a variant of the while loop that waits for one byte more than the record
RECURSIVE deserializationLoop_Strict(_)
deserializationLoop_Strict(st) ==
  IF Len(st.buffer) < 4 THEN st
  ELSE LET chunkSize == ReadU32BE(st.buffer) IN
       IF Len(st.buffer) <= 4 + chunkSize THEN st
       ELSE LET chunkData == SubSeq(st.buffer, 5, 4 + chunkSize)
                rest == SubSeq(st.buffer, 5 + chunkSize, Len(st.buffer))
            IN  IF ~fromBufferOk(chunkData)
                  THEN [st EXCEPT !.buffer = rest, !.state = "errored",
                                  !.error = PlainError("Buffer invalido ou muito pequeno")]
                  ELSE deserializationLoop_Strict(
                         [st EXCEPT !.buffer = rest,
                                    !.pushed = Append(@, fromBuffer(chunkData))])

\* the while loop of _transform: [size(4 bytes)][chunk data]
RECURSIVE deserializationLoop(_)
deserializationLoop(st) ==
  IF Len(st.buffer) < 4 THEN st
  ELSE LET chunkSize == ReadU32BE(st.buffer) IN
       IF Len(st.buffer) < 4 + chunkSize THEN st
       ELSE LET chunkData == SubSeq(st.buffer, 5, 4 + chunkSize)
                rest == SubSeq(st.buffer, 5 + chunkSize, Len(st.buffer))
            IN  IF ~fromBufferOk(chunkData)
                  THEN [st EXCEPT !.buffer = rest, !.state = "errored",
                                  !.error = PlainError("Buffer invalido ou muito pequeno")]
                  ELSE deserializationLoop(
                         [st EXCEPT !.buffer = rest,
                                    !.pushed = Append(@, fromBuffer(chunkData))])

\* a variant of _transform that parses each written block on its own
deserializationTransform_PerWrite(st, chunk) ==
  deserializationLoop([st EXCEPT !.buffer = chunk])

\* ChunkDeserializationStream._transform(chunk)
deserializationTransform(st, chunk) ==
  deserializationLoop([st EXCEPT !.buffer = @ \o chunk])

\* a variant of _flush that ends whatever is left in the buffer
deserializationFlush_Silent(st) == [st EXCEPT !.state = "ended"]

\* ChunkDeserializationStream._flush()
deserializationFlush(st) ==
  IF Len(st.buffer) > 0
    THEN [st EXCEPT !.state = "errored",
                    !.error = [name |-> "Error", detail |-> "Buffer contem bytes nao processados",
                               index |-> Len(st.buffer)]]
    ELSE [st EXCEPT !.state = "ended"]

\* ------------------------------------------------------------ DecryptionStream
\* new DecryptionStream(videoKey, videoId)
DecryptionStream(videoKey, videoId) ==
  [videoKey |-> videoKey, videoId |-> videoId, chunksProcessed |-> 0,
   bytesProcessed |-> 0, errors |-> <<>>, pushed |-> <<>>, accepted |-> <<>>,
   state |-> "open", error |-> NoError]

\* a variant of _transform that pushes what decipher.update returned before
\* decipher.final verified the tag
decryptionTransform_Unverified(st, encryptedChunk) ==
  LET r == decryptChunk(encryptedChunk, st.videoKey, st.videoId)
      out == GcmDecrypt(st.videoKey, encryptedChunk.iv, encryptedChunk.ciphertext)
  IN  IF r.ok
        THEN [st EXCEPT !.pushed = Append(@, r.plaintext),
                        !.accepted = Append(@, encryptedChunk.index),
                        !.chunksProcessed = @ + 1,
                        !.bytesProcessed = @ + Len(r.plaintext)]
        ELSE [st EXCEPT !.pushed = Append(@, out),
                        !.errors = Append(@, [chunkIndex |-> encryptedChunk.index, error |-> r.err]),
                        !.state = "errored",
                        !.error = r.err]

\* DecryptionStream._transform(encryptedChunk); accepted records the indices of
\* the frames whose plaintext was pushed
decryptionTransform(st, encryptedChunk) ==
  LET r == decryptChunk(encryptedChunk, st.videoKey, st.videoId)
  IN  IF r.ok
        THEN [st EXCEPT !.pushed = Append(@, r.plaintext),
                        !.accepted = Append(@, encryptedChunk.index),
                        !.chunksProcessed = @ + 1,
                        !.bytesProcessed = @ + Len(r.plaintext)]
        ELSE [st EXCEPT !.errors = Append(@, [chunkIndex |-> encryptedChunk.index, error |-> r.err]),
                        !.state = "errored",
                        !.error = r.err]

\* DecryptionStream.getStats()
decryptionStats(st) ==
  [chunksProcessed |-> st.chunksProcessed, bytesProcessed |-> st.bytesProcessed,
   errors |-> st.errors]

\* Buffer.concat(list)
RECURSIVE Concat(_)
Concat(list) == IF list = <<>> THEN <<>> ELSE Head(list) \o Concat(Tail(list))

\* ------------------------------------------------------------ text encodings
\* Buffer.toString('hex'): two lower-case digits per byte
HexDigit(n) == IF n < 10 THEN 48 + n ELSE 87 + n

HexEncode(b) ==
  [i \in 1..(2 * Len(b)) |->
     HexDigit(IF i % 2 = 1 THEN b[(i + 1) \div 2] \div 16 ELSE b[i \div 2] % 16)]

HexValue(c) ==
  IF c \in 48..57 THEN c - 48
  ELSE IF c \in 97..102 THEN c - 87
  ELSE IF c \in 65..70 THEN c - 55
  ELSE -1

\* Buffer.from(s, 'hex'): whole pairs, up to the first pair that is not hex
HexDecode(s) ==
  LET pairs == Len(s) \div 2
      bad == {k \in 1..pairs : HexValue(s[2 * k - 1]) < 0 \/ HexValue(s[2 * k]) < 0}
      n == IF bad = {} THEN pairs ELSE (CHOOSE k \in bad : \A j \in bad : k <= j) - 1
  IN  [k \in 1..n |-> HexValue(s[2 * k - 1]) * 16 + HexValue(s[2 * k])]

\* Buffer.toString('base64'): A-Z a-z 0-9 + / with = padding
Base64Char(n) ==
  IF n < 26 THEN 65 + n
  ELSE IF n < 52 THEN 71 + n
  ELSE IF n < 62 THEN n - 4
  ELSE IF n = 62 THEN 43 ELSE 47

Base64Encode(b) ==
  LET n == Len(b)
      at(k) == IF k <= n THEN b[k] ELSE 0
  IN  [i \in 1..(4 * ((n + 2) \div 3)) |->
         LET g == (i - 1) \div 4
             r == (i - 1) % 4
             b0 == at(3 * g + 1)
             b1 == at(3 * g + 2)
             b2 == at(3 * g + 3)
         IN  IF r = 0 THEN Base64Char(b0 \div 4)
             ELSE IF r = 1 THEN Base64Char((b0 % 4) * 16 + b1 \div 16)
             ELSE IF r = 2
               THEN (IF 3 * g + 2 > n THEN 61 ELSE Base64Char((b1 % 16) * 4 + b2 \div 64))
             ELSE (IF 3 * g + 3 > n THEN 61 ELSE Base64Char(b2 % 64))]

Base64Value(c) ==
  IF c \in 65..90 THEN c - 65
  ELSE IF c \in 97..122 THEN c - 71
  ELSE IF c \in 48..57 THEN c + 4
  ELSE IF c \in {43, 45} THEN 62
  ELSE IF c \in {47, 95} THEN 63
  ELSE -1

\* Buffer.from(s, 'base64'): stops at the first '=', skips what is not in the alphabet
Base64Decode(s) ==
  LET pads == {i \in 1..Len(s) : s[i] = 61}
      upTo == IF pads = {} THEN Len(s) ELSE (CHOOSE i \in pads : \A j \in pads : i <= j) - 1
      IsDigit(c) == Base64Value(c) >= 0
      v == SelectSeq(SubSeq(s, 1, upTo), IsDigit)
      six(k) == Base64Value(v[k])
  IN  [j \in 1..((6 * Len(v)) \div 8) |->
         LET g == (j - 1) \div 3
             r == (j - 1) % 3
         IN  IF r = 0 THEN six(4 * g + 1) * 4 + six(4 * g + 2) \div 16
             ELSE IF r = 1 THEN (six(4 * g + 2) % 16) * 16 + six(4 * g + 3) \div 4
             ELSE (six(4 * g + 3) % 4) * 64 + six(4 * g + 4)]

Encodings == {"binary", "base64", "hex"}

\* TextEncodingStream._transform(chunk): chunk.toString(encoding) + '\n'
textEncodingTransform(chunk, encoding) ==
  (IF encoding = "hex" THEN HexEncode(chunk) ELSE Base64Encode(chunk)) \o <<10>>

\* chunk.toString(): UTF-8 decoding, a byte that is not ASCII becomes U+FFFD
Utf8ToString(chunk) == [i \in 1..Len(chunk) |-> IF chunk[i] < 128 THEN chunk[i] ELSE 65533]

\* String.prototype.split(sep)
RECURSIVE Split(_, _)
Split(s, sep) ==
  LET at == {i \in 1..Len(s) : s[i] = sep} IN
  IF at = {} THEN <<s>>
  ELSE LET p == CHOOSE i \in at : \A j \in at : i <= j
       IN  <<SubSeq(s, 1, p - 1)>> \o Split(SubSeq(s, p + 1, Len(s)), sep)

\* String.prototype.trim()
Trim(s) ==
  LET keep == {i \in 1..Len(s) : s[i] \notin {9, 10, 11, 12, 13, 32}} IN
  IF keep = {} THEN <<>>
  ELSE SubSeq(s, CHOOSE i \in keep : \A j \in keep : i <= j,
                 CHOOSE i \in keep : \A j \in keep : i >= j)

\* new TextDecodingStream(encoding)
TextDecodingStream(encoding) ==
  [encoding |-> encoding, lineBuffer |-> <<>>, pushed |-> <<>>, state |-> "open"]

\* Buffer.from(line.trim(), this.encoding)
textDecodeLine(line, encoding) ==
  IF encoding = "hex" THEN HexDecode(Trim(line)) ELSE Base64Decode(Trim(line))

\* the for loop of _transform: every line with something in it is decoded and pushed
RECURSIVE textDecodeLines(_, _)
textDecodeLines(lines, encoding) ==
  IF lines = <<>> THEN <<>>
  ELSE (IF Trim(Head(lines)) # <<>> THEN <<textDecodeLine(Head(lines), encoding)>> ELSE <<>>)
       \o textDecodeLines(Tail(lines), encoding)

\* TextDecodingStream._transform(chunk) that splits each block on its own
textDecodingTransform_PerBlock(st, chunk) ==
  LET lines == Split(Utf8ToString(chunk), 10) IN
  [st EXCEPT !.lineBuffer = lines[Len(lines)],
             !.pushed = @ \o textDecodeLines(SubSeq(lines, 1, Len(lines) - 1), st.encoding)]

\* TextDecodingStream._transform(chunk)
textDecodingTransform(st, chunk) ==
  LET lines == Split(st.lineBuffer \o Utf8ToString(chunk), 10) IN
  [st EXCEPT !.lineBuffer = lines[Len(lines)],
             !.pushed = @ \o textDecodeLines(SubSeq(lines, 1, Len(lines) - 1), st.encoding)]

\* TextDecodingStream._flush()
textDecodingFlush(st) ==
  [st EXCEPT !.pushed = @ \o textDecodeLines(<<st.lineBuffer>>, st.encoding),
             !.state = "ended"]

\* ------------------------------------------------------------ inputs
MasterA == [i \in 1..32 |-> (7 * i + 3) % 256]
MasterB == [i \in 1..32 |-> (11 * i + 5) % 256]
Masters == {MasterA, MasterB}

\* "v1", "v2"
VideoIds == {<<118, 49>>, <<118, 50>>}

\* the IVs crypto.randomBytes(12) can return in the model
Nonces == {[i \in 1..IV_LENGTH |-> (n * 37 + i) % 256] : n \in 1..NumNonces}

\* the subkey of every (master, object id) of the model, derived once
VideoKeyOf == [m \in Masters |-> [v \in VideoIds |-> deriveVideoKey(m, v)]]

\* plaintexts of 1..n bytes (byte i of the data is determined by i and a flavour)
PlainOf(n, f) == [i \in 1..n |-> (f * 64 + i) % 256]

VARIABLES
  c_chunk,      \* frame-level: the frame under test (NoChunk before encryptChunk)
  c_made,       \* frame-level: [plaintext, master, videoId, index, by] it was made from
  c_tamper,     \* frame-level: "none" or the field whose bit was inverted
  c_result,     \* frame-level: result of the last decryptChunk call
  c_call,       \* frame-level: [master, keyId, videoId] of that call
  data,         \* session: the plaintext input of the encrypt session
  api,          \* session: "buffer" (encryptBuffer: one write), "stream" or "file" (any blocks)
  e_pending,    \* session: input bytes not yet written to the EncryptionStream
  e_writes,     \* session: number of blocks written so far
  enc,          \* session: the EncryptionStream
  ser,          \* session: buffers pushed by the ChunkSerializationStream
  d_mode,       \* session: "idle", or how the decrypt input was framed
  d_attack,     \* session: what was done to the frames in between
  d_call,       \* session: [master, videoId] given to the decrypt entry point
  d_input,      \* session: blocks not yet written to the ChunkDeserializationStream
  des,          \* session: the ChunkDeserializationStream
  dec,          \* session: the DecryptionStream
  d_taken,      \* session: number of frames the DecryptionStream took from des
  encoding,     \* file session: the encoding option of encryptFile and decryptFile
  e_text,       \* file session: strings pushed by the TextEncodingStream
  r_rest,       \* file session: bytes of the encrypted file not yet read
  tdec,         \* file session: the TextDecodingStream
  p_bodies,     \* parser run: the record bodies of the envelope stream, in order
  p_tail,       \* parser run: bytes of the stream after its last whole record
  p_rest,       \* parser run: bytes of the stream not yet written to the parser
  p_des,        \* parser run: the ChunkDeserializationStream
  k_op,         \* key helpers: the helper that was called ("none" before the call)
  k_in,         \* key helpers: the argument of the call
  k_out,        \* key helpers: [err, value] the call threw or returned
  e_call,       \* entry points: [entry, chunkSize, err, derived] of the encrypt call
  o_sess,       \* stream objects: the sessions driven side by side, with their histories
  t_lines,      \* text runs: the lines of the text, in order
  t_rest,       \* text runs: bytes of the text not yet written to the TextDecodingStream
  t_dec,        \* text runs: the TextDecodingStream
  t_cut,        \* text runs: whether some block ended inside a line
  d_kept,       \* sessions: how many serialized frames the decrypt session was given
  w_call,       \* subkey calls: [op, videoKey, err] of an encryptChunk / decryptChunk call
  rl,           \* rate limiter: the RateLimiter object [maxRequests, windowMs, requests]
  rl_now,       \* rate limiter: Date.now()
  rl_last,      \* rate limiter: the last call, [op, key, time, result, fresh]
  rl_prev,      \* rate limiter: this.requests before the last call
  rl_win        \* rate limiter: for each key, when its window opened and the calls allowed in it

cvars == <<c_chunk, c_made, c_tamper, c_result, c_call>>

fvars == <<encoding, e_text, r_rest, tdec>>

svars == <<data, api, e_pending, e_writes, enc, ser, d_mode, d_attack, d_call,
           d_input, des, dec, d_taken, fvars>>

pvars == <<p_bodies, p_tail, p_rest, p_des>>

kvars == <<k_op, k_in, k_out>>

tvars == <<t_lines, t_rest, t_dec, t_cut>>

lvars == <<rl, rl_now, rl_last, rl_prev, rl_win>>

yvars == <<tvars, w_call, lvars, d_kept>>

xvars == <<kvars, e_call, o_sess, yvars>>

vars == <<cvars, svars, pvars, xvars>>

NoResult == DecResult(FALSE, <<>>, [name |-> "pending", detail |-> "", index |-> -1])
NoMade == [plaintext |-> <<>>, master |-> <<>>, videoId |-> <<>>, index |-> -1, by |-> "nobody"]
NoCall == [master |-> <<>>, keyId |-> <<>>, videoId |-> <<>>]
NoStream == [state |-> "none"]

ChunkIdle ==
  /\ c_chunk = NoChunk
  /\ c_made = NoMade
  /\ c_tamper = "none"
  /\ c_result = NoResult
  /\ c_call = NoCall

SessionIdle ==
  /\ data = <<>>
  /\ api = "none"
  /\ e_pending = <<>>
  /\ e_writes = 0
  /\ enc = NoStream
  /\ ser = <<>>
  /\ d_mode = "idle"
  /\ d_attack = "none"
  /\ d_call = NoCall
  /\ d_input = <<>>
  /\ des = NoStream
  /\ dec = NoStream
  /\ d_taken = 0
  /\ encoding = "binary"
  /\ e_text = <<>>
  /\ r_rest = <<>>
  /\ tdec = NoStream

ParserIdle ==
  /\ p_bodies = <<>>
  /\ p_tail = <<>>
  /\ p_rest = <<>>
  /\ p_des = NoStream

NoOutcome == [err |-> [name |-> "pending", detail |-> "", index |-> -1], value |-> <<>>]
NoEntry == [entry |-> "none", chunkSize |-> [defined |-> FALSE, value |-> 0], err |-> NoError,
            derived |-> FALSE]

KeysIdle ==
  /\ k_op = "none"
  /\ k_in = <<>>
  /\ k_out = NoOutcome

TextIdle ==
  /\ t_lines = <<>>
  /\ t_rest = <<>>
  /\ t_dec = NoStream
  /\ t_cut = FALSE

NoLimiter == [maxRequests |-> 0, windowMs |-> 0, requests |-> <<>>]

NoLimiterCall == [op |-> "none", key |-> "", time |-> 0, result |-> FALSE, fresh |-> FALSE]

LimiterIdle ==
  /\ rl = NoLimiter
  /\ rl_now = 0
  /\ rl_last = NoLimiterCall
  /\ rl_prev = <<>>
  /\ rl_win = <<>>

NoSubkeyCall == [op |-> "none", videoKey |-> <<>>, videoId |-> <<>>, chunkIndex |-> 0, err |-> NoError]

LaterIdle ==
  /\ TextIdle
  /\ LimiterIdle
  /\ w_call = NoSubkeyCall
  /\ d_kept = 0

ExtraIdle ==
  /\ KeysIdle
  /\ e_call = NoEntry
  /\ o_sess = <<>>
  /\ LaterIdle

\* ============================================================ frame level
ChunkInit == ChunkIdle /\ SessionIdle /\ ParserIdle /\ ExtraIdle

\* encryptChunk(plaintext, deriveVideoKey(master, videoId), videoId, index)
ChunkEncrypt ==
  /\ c_chunk = NoChunk
  /\ \E m \in {MasterA}, v \in VideoIds, i \in 0..MaxIndex, n \in 1..MaxPlain, iv \in Nonces :
       LET pt == PlainOf(n, i) IN
       /\ encryptChunkError(pt, VideoKeyOf[m][v], v, i) = NoError
       /\ c_chunk' = encryptChunk(pt, VideoKeyOf[m][v], v, i, iv)
       /\ c_made' = [plaintext |-> pt, master |-> m, videoId |-> v, index |-> i,
                     by |-> "encryptChunk"]
  /\ UNCHANGED <<c_tamper, c_result, c_call, svars, pvars, xvars>>

\* one bit of one field of the frame is inverted (tests: ciphertext[0] ^= 0xFF, index = 1)
FlipAt(s, p, k) == [s EXCEPT ![p] = FlipBit(s[p], k)]

\* every bit of iv, tag and ciphertext, and bits 0..30 of the index (the top
\* bit of the uint32 index is left alone: indices here stay below 2^31)
TamperedChunks(chunk) ==
  [field : {"index"}, chunk :
     {[chunk EXCEPT !.index = ReadU32BE(FlipAt(U32BE(chunk.index), q[1], q[2]))] :
        q \in {pk \in (1..INDEX_SIZE) \X (0..7) : pk[1] > 1 \/ pk[2] < 7}}]
  \cup [field : {"iv"}, chunk :
     {[chunk EXCEPT !.iv = FlipAt(chunk.iv, p, k)] : p \in 1..IV_LENGTH, k \in 0..7}]
  \cup [field : {"tag"}, chunk :
     {[chunk EXCEPT !.tag = FlipAt(chunk.tag, p, k)] : p \in 1..AUTH_TAG_LENGTH, k \in 0..7}]
  \cup [field : {"ciphertext"}, chunk :
     {[chunk EXCEPT !.ciphertext = FlipAt(chunk.ciphertext, p, k)] :
        p \in 1..Len(chunk.ciphertext), k \in 0..7}]

ChunkTamper ==
  /\ c_chunk # NoChunk
  /\ c_made.by = "encryptChunk"
  /\ c_tamper = "none"
  /\ c_result = NoResult
  /\ \E t \in TamperedChunks(c_chunk) :
       /\ c_chunk' = t.chunk
       /\ c_tamper' = t.field
  /\ UNCHANGED <<c_made, c_result, c_call, svars, pvars, xvars>>

\* a frame of the same format sealed by another holder of the subkey (AES-256-GCM
\* with the AAD of createAAD), whose index is beyond MAX_CHUNKS_PER_VIDEO
ChunkImport ==
  /\ c_chunk = NoChunk
  /\ \E v \in VideoIds, i \in {MAX_CHUNKS_PER_VIDEO + 1, 2 * MAX_CHUNKS_PER_VIDEO},
        n \in 1..MaxPlain, iv \in Nonces :
       LET pt == PlainOf(n, 2) IN
       /\ c_chunk' = encryptChunk(pt, VideoKeyOf[MasterA][v], v, i, iv)
       /\ c_made' = [plaintext |-> pt, master |-> MasterA, videoId |-> v, index |-> i,
                     by |-> "other"]
  /\ UNCHANGED <<c_tamper, c_result, c_call, svars, pvars, xvars>>

\* decryptChunk(chunk, deriveVideoKey(master, keyId), videoId); a frame that
\* was altered in transit or sealed elsewhere is opened with the key and id it
\* was sealed under
ChunkDecrypt ==
  /\ c_chunk # NoChunk
  /\ c_result = NoResult
  /\ \E m \in Masters, kv \in VideoIds, v \in VideoIds :
       /\ (c_tamper # "none" \/ c_made.by = "other") =>
            (m = c_made.master /\ kv = c_made.videoId /\ v = c_made.videoId)
       /\ c_result' = decryptChunk(c_chunk, VideoKeyOf[m][kv], v)
       /\ c_call' = [master |-> m, keyId |-> kv, videoId |-> v]
  /\ UNCHANGED <<c_chunk, c_made, c_tamper, svars, pvars, xvars>>

ChunkNext == ChunkEncrypt \/ ChunkImport \/ ChunkTamper \/ ChunkDecrypt

SpecChunk == ChunkInit /\ [][ChunkNext]_vars

\* ============================================================ sessions
\* the object id and master of the encrypt session
EncVideoId == <<118, 49>>

Init ==
  /\ ChunkIdle
  /\ ParserIdle
  /\ ExtraIdle
  /\ \E n \in 0..MaxData : data = PlainOf(n, 1)
  /\ api \in {"buffer", "stream"}
  /\ e_pending = data
  /\ e_writes = 0
  /\ enc = EncryptionStream(VideoKeyOf[MasterA][EncVideoId], EncVideoId, ChunkSize)
  /\ ser = <<>>
  /\ d_mode = "idle"
  /\ d_attack = "none"
  /\ d_call = NoCall
  /\ d_input = <<>>
  /\ des = NoStream
  /\ dec = NoStream
  /\ d_taken = 0
  /\ encoding = "binary"
  /\ e_text = <<>>
  /\ r_rest = <<>>
  /\ tdec = NoStream

\* encryptionStream.write(block): encryptBuffer writes the whole input at once,
\* a piped source writes blocks of any size
EncWrite ==
  /\ enc.state = "open"
  /\ IF api = "buffer" THEN e_writes = 0 ELSE e_pending # <<>>
  /\ \E n \in (IF api = "buffer" THEN {Len(e_pending)} ELSE 1..Len(e_pending)) :
       LET block == SubSeq(e_pending, 1, n)
           k == (Len(enc.buffer) + n) \div enc.chunkSize
       IN  /\ \E ivs \in [1..k -> Nonces] : enc' = encryptionTransform(enc, block, ivs)
           /\ e_pending' = SubSeq(e_pending, n + 1, Len(e_pending))
  /\ e_writes' = e_writes + 1
  /\ UNCHANGED <<data, api, ser, d_mode, d_attack, d_call, d_input, des, dec, d_taken, fvars, cvars, pvars, xvars>>

\* encryptionStream.end()
EncEnd ==
  /\ enc.state = "open"
  /\ e_pending = <<>>
  /\ api = "buffer" => e_writes = 1
  /\ \E iv \in (IF Len(enc.buffer) > 0 THEN Nonces ELSE {<<>>}) : enc' = encryptionFlush(enc, iv)
  /\ UNCHANGED <<data, api, e_pending, e_writes, ser, d_mode, d_attack, d_call, d_input,
                 des, dec, d_taken, fvars, cvars, pvars, xvars>>

\* the serializer takes the next frame the EncryptionStream pushed
SerTransform ==
  /\ enc.state # "none"
  /\ Len(ser) < Len(enc.pushed)
  /\ ser' = Append(ser, serializationTransform(enc.pushed[Len(ser) + 1]))
  /\ UNCHANGED <<data, api, e_pending, e_writes, enc, d_mode, d_attack, d_call, d_input,
                 des, dec, d_taken, fvars, cvars, pvars, xvars>>

\* what can happen to the serialized frames before they are decrypted
SwapAt(list, i, j) == [list EXCEPT ![i] = list[j], ![j] = list[i]]
ReplayAt(list, i) == SubSeq(list, 1, i) \o <<list[i]>> \o SubSeq(list, i + 1, Len(list))
DropAt(list, i) == SubSeq(list, 1, i - 1) \o SubSeq(list, i + 1, Len(list))
CutAt(list, k) == SubSeq(list, 1, k)

\* one byte of each field of a serialized frame: index, iv, tag, ciphertext
FlipPositions == {4, 5, 17, 33}

Attacks(list) ==
  {[kind |-> "none", list |-> list]}
  \cup {[kind |-> "swap", list |-> SwapAt(list, ij[1], ij[2])] :
          ij \in {q \in (1..Len(list)) \X (1..Len(list)) : q[1] < q[2]}}
  \cup {[kind |-> "replay", list |-> ReplayAt(list, i)] : i \in 1..Len(list)}
  \cup {[kind |-> "drop", list |-> DropAt(list, i)] : i \in 1..Len(list)}
  \cup {[kind |-> "cut", list |-> CutAt(list, k)] : k \in 0..(Len(list) - 1)}
  \cup {[kind |-> "flip", list |-> [list EXCEPT ![i] = FlipAt(list[i], p, 0)]] :
          i \in 1..Len(list), p \in FlipPositions}

\* the record the parser reads: [size(4 bytes)][chunk data]
LengthPrefixed(body) == U32BE(Len(body)) \o body

\* decryptBuffer({chunks, masterKey, videoId}): "raw" passes the buffers the
\* serializer pushed, "prefixed" passes each as a record of the parser's format
DecryptStart ==
  /\ d_mode = "idle"
  /\ enc.state = "ended"
  /\ Len(ser) = Len(enc.pushed)
  /\ \E mode \in {"raw", "prefixed"}, m \in Masters, v \in VideoIds, a \in Attacks(ser) :
       /\ d_mode' = mode
       /\ d_attack' = a.kind
       /\ d_call' = [master |-> m, keyId |-> v, videoId |-> v]
       /\ d_input' = IF mode = "raw" THEN a.list
                     ELSE [i \in 1..Len(a.list) |-> LengthPrefixed(a.list[i])]
       /\ des' = ChunkDeserializationStream
       /\ dec' = DecryptionStream(deriveVideoKey(m, v), v)
       /\ d_kept' = Len(a.list)
  /\ d_taken' = 0
  /\ UNCHANGED <<data, api, e_pending, e_writes, enc, ser, fvars, cvars, pvars, kvars,
                 e_call, o_sess, tvars, w_call, lvars>>

\* deserializationStream.write(chunk)
DesWrite ==
  /\ d_mode # "idle"
  /\ des.state = "open"
  /\ d_input # <<>>
  /\ des' = deserializationTransform(des, Head(d_input))
  /\ d_input' = Tail(d_input)
  /\ UNCHANGED <<data, api, e_pending, e_writes, enc, ser, d_mode, d_attack, d_call,
                 dec, d_taken, fvars, cvars, pvars, xvars>>

\* deserializationStream.end()
DesEnd ==
  /\ d_mode # "idle"
  /\ des.state = "open"
  /\ d_input = <<>>
  /\ r_rest = <<>>
  /\ tdec.state # "open"
  /\ des' = deserializationFlush(des)
  /\ UNCHANGED <<data, api, e_pending, e_writes, enc, ser, d_mode, d_attack, d_call,
                 d_input, dec, d_taken, fvars, cvars, pvars, xvars>>

\* the DecryptionStream takes the next frame the parser pushed
DecTransform ==
  /\ d_mode # "idle"
  /\ dec.state = "open"
  /\ d_taken < Len(des.pushed)
  /\ dec' = decryptionTransform(dec, des.pushed[d_taken + 1])
  /\ d_taken' = d_taken + 1
  /\ UNCHANGED <<data, api, e_pending, e_writes, enc, ser, d_mode, d_attack, d_call,
                 d_input, des, fvars, cvars, pvars, xvars>>

\* the parser ended and every frame was taken: the DecryptionStream ends
DecEnd ==
  /\ d_mode # "idle"
  /\ dec.state = "open"
  /\ des.state = "ended"
  /\ d_taken = Len(des.pushed)
  /\ dec' = [dec EXCEPT !.state = "ended"]
  /\ UNCHANGED <<data, api, e_pending, e_writes, enc, ser, d_mode, d_attack, d_call,
                 d_input, des, d_taken, fvars, cvars, pvars, xvars>>

\* pipeline(deserializationStream, decryptionStream): an error of the parser
\* destroys the DecryptionStream
PipelineAbort ==
  /\ d_mode # "idle"
  /\ dec.state = "open"
  /\ des.state = "errored"
  /\ dec' = [dec EXCEPT !.state = "errored", !.error = des.error]
  /\ UNCHANGED <<data, api, e_pending, e_writes, enc, ser, d_mode, d_attack, d_call,
                 d_input, des, d_taken, fvars, cvars, pvars, xvars>>

Next ==
  \/ EncWrite
  \/ EncEnd
  \/ SerTransform
  \/ DecryptStart
  \/ DesWrite
  \/ DesEnd
  \/ DecTransform
  \/ DecEnd
  \/ PipelineAbort

Spec == Init /\ [][Next]_vars

\* ============================================================ file sessions
\* the size of the blocks a file reader delivers, besides "all that is left"
ReadBlock == 3

\* encryptFile({inputPath, outputPath, masterKey, videoId, encoding})
FileInit ==
  /\ ChunkIdle
  /\ ParserIdle
  /\ ExtraIdle
  /\ \E n \in 0..MaxData : data = PlainOf(n, 1)
  /\ api = "file"
  /\ e_pending = data
  /\ e_writes = 0
  /\ enc = EncryptionStream(VideoKeyOf[MasterA][EncVideoId], EncVideoId, ChunkSize)
  /\ ser = <<>>
  /\ d_mode = "idle"
  /\ d_attack = "none"
  /\ d_call = NoCall
  /\ d_input = <<>>
  /\ des = NoStream
  /\ dec = NoStream
  /\ d_taken = 0
  /\ encoding \in Encodings
  /\ e_text = <<>>
  /\ r_rest = <<>>
  /\ tdec = NoStream

\* the TextEncodingStream takes the next buffer the serializer pushed
TextEncTransform ==
  /\ encoding # "binary"
  /\ Len(e_text) < Len(ser)
  /\ e_text' = Append(e_text, textEncodingTransform(ser[Len(e_text) + 1], encoding))
  /\ UNCHANGED <<data, api, e_pending, e_writes, enc, ser, d_mode, d_attack, d_call,
                 d_input, des, dec, d_taken, encoding, r_rest, tdec, cvars, pvars, xvars>>

\* what the pipeline of encryptFile wrote to outputPath
EncryptedFile == IF encoding = "binary" THEN Concat(ser) ELSE Concat(e_text)

\* a file of the same frames in the format the parser reads, one record per
\* serializer buffer
RecordsFile ==
  LET records == [i \in 1..Len(ser) |-> LengthPrefixed(ser[i])] IN
  IF encoding = "binary" THEN Concat(records)
  ELSE Concat([i \in 1..Len(ser) |-> textEncodingTransform(records[i], encoding)])

\* decryptFile({inputPath, outputPath, masterKey, videoId, encoding}) on the
\* file encryptFile wrote ("file") or on a file of records ("records")
DecryptFileStart ==
  /\ d_mode = "idle"
  /\ enc.state = "ended"
  /\ Len(ser) = Len(enc.pushed)
  /\ encoding # "binary" => Len(e_text) = Len(ser)
  /\ \E mode \in {"file", "records"}, m \in Masters :
       /\ d_mode' = mode
       /\ d_call' = [master |-> m, keyId |-> EncVideoId, videoId |-> EncVideoId]
       /\ r_rest' = IF mode = "file" THEN EncryptedFile ELSE RecordsFile
       /\ dec' = DecryptionStream(deriveVideoKey(m, EncVideoId), EncVideoId)
  /\ tdec' = IF encoding = "binary" THEN NoStream ELSE TextDecodingStream(encoding)
  /\ des' = ChunkDeserializationStream
  /\ d_input' = <<>>
  /\ d_taken' = 0
  /\ UNCHANGED <<data, api, e_pending, e_writes, enc, ser, d_attack, encoding, e_text, cvars, pvars, xvars>>

ReadSizes(rest) == {n \in {ReadBlock} : n < Len(rest)} \cup {Len(rest)}

\* the pipeline is running: no stream of it has failed
PipelineOpen == des.state = "open" /\ dec.state = "open"

\* fs.createReadStream(inputPath) delivers a block to the parser (encoding 'binary')
FileRead ==
  /\ d_mode \in {"file", "records"}
  /\ encoding = "binary"
  /\ PipelineOpen
  /\ r_rest # <<>>
  /\ d_input = <<>>
  /\ \E n \in ReadSizes(r_rest) :
       /\ d_input' = <<SubSeq(r_rest, 1, n)>>
       /\ r_rest' = SubSeq(r_rest, n + 1, Len(r_rest))
  /\ UNCHANGED <<data, api, e_pending, e_writes, enc, ser, d_mode, d_attack, d_call,
                 des, dec, d_taken, encoding, e_text, tdec, cvars, pvars, xvars>>

\* fs.createReadStream(inputPath) delivers a block to the TextDecodingStream,
\* which pushes the decoded lines to the parser
TextDecTransform ==
  /\ d_mode \in {"file", "records"}
  /\ tdec.state = "open"
  /\ PipelineOpen
  /\ r_rest # <<>>
  /\ d_input = <<>>
  /\ \E n \in ReadSizes(r_rest) :
       LET next == textDecodingTransform(tdec, SubSeq(r_rest, 1, n)) IN
       /\ tdec' = next
       /\ d_input' = SubSeq(next.pushed, Len(tdec.pushed) + 1, Len(next.pushed))
       /\ r_rest' = SubSeq(r_rest, n + 1, Len(r_rest))
  /\ UNCHANGED <<data, api, e_pending, e_writes, enc, ser, d_mode, d_attack, d_call,
                 des, dec, d_taken, encoding, e_text, cvars, pvars, xvars>>

\* the reader ended: TextDecodingStream._flush()
TextDecFlush ==
  /\ d_mode \in {"file", "records"}
  /\ tdec.state = "open"
  /\ PipelineOpen
  /\ r_rest = <<>>
  /\ LET next == textDecodingFlush(tdec) IN
       /\ tdec' = next
       /\ d_input' = d_input \o SubSeq(next.pushed, Len(tdec.pushed) + 1, Len(next.pushed))
  /\ UNCHANGED <<data, api, e_pending, e_writes, enc, ser, d_mode, d_attack, d_call,
                 des, dec, d_taken, encoding, e_text, r_rest, cvars, pvars, xvars>>

FileNext ==
  \/ EncWrite
  \/ EncEnd
  \/ SerTransform
  \/ TextEncTransform
  \/ DecryptFileStart
  \/ FileRead
  \/ TextDecTransform
  \/ TextDecFlush
  \/ DesWrite
  \/ DesEnd
  \/ DecTransform
  \/ DecEnd
  \/ PipelineAbort

SpecFile == FileInit /\ [][FileNext]_vars

\* ============================================================ parser runs
\* most records of an envelope stream
MaxRecords == 2
\* longest block written to the parser, besides "all that is left"
MaxRead == 4

MAX_CHUNK_SIZE == 10485760

\* lengths of the record bodies: empty, header only, header and 1 or 2 bytes
BodyLens == {0, HEADER_TOTAL_SIZE, HEADER_TOTAL_SIZE + 1, HEADER_TOTAL_SIZE + 2}

\* the k-th record body of n bytes (bytes below 128)
BodyOf(n, k) == [i \in 1..n |-> (k * 50 + i) % 128]

\* what follows the last whole record: nothing, half a length, a length with no
\* body (Buffer.from([0, 0, 0, 10])), a record cut short, a length of 16 MiB
\* (beyond HEADER_TOTAL_SIZE + MAX_CHUNK_SIZE)
Tails ==
  {<<>>, <<0, 0>>, U32BE(10), U32BE(HEADER_TOTAL_SIZE + 8) \o <<1, 2, 3>>,
   U32BE(Pow2(24)) \o <<1>>}

\* new ChunkDeserializationStream(), and the bytes that will be written to it
ParserInit ==
  /\ ChunkIdle
  /\ SessionIdle
  /\ ExtraIdle
  /\ \E k \in 0..MaxRecords : \E lens \in [1..k -> BodyLens] :
       p_bodies = [i \in 1..k |-> BodyOf(lens[i], i)]
  /\ p_tail \in Tails
  /\ p_rest = Concat([i \in 1..Len(p_bodies) |-> LengthPrefixed(p_bodies[i])]) \o p_tail
  /\ p_des = ChunkDeserializationStream

\* deserializationStream.write(block), the block being any next piece of the input
ParserWrite ==
  /\ p_des.state = "open"
  /\ p_rest # <<>>
  /\ \E n \in {k \in 1..MaxRead : k < Len(p_rest)} \cup {Len(p_rest)} :
       /\ p_des' = deserializationTransform(p_des, SubSeq(p_rest, 1, n))
       /\ p_rest' = SubSeq(p_rest, n + 1, Len(p_rest))
  /\ UNCHANGED <<p_bodies, p_tail, cvars, svars, xvars>>

\* deserializationStream.end()
ParserEnd ==
  /\ p_des.state = "open"
  /\ p_rest = <<>>
  /\ p_des' = deserializationFlush(p_des)
  /\ UNCHANGED <<p_bodies, p_tail, p_rest, cvars, svars, xvars>>

ParserNext == ParserWrite \/ ParserEnd

SpecParser == ParserInit /\ [][ParserNext]_vars

\* ============================================================ long sessions
\* an encrypt session that has already emitted MAX_CHUNKS_PER_VIDEO - 1 or
\* MAX_CHUNKS_PER_VIDEO frames; data is the input still to come and
\* enc.pushed holds the frames emitted from here on
CeilingInit ==
  /\ ChunkIdle
  /\ ParserIdle
  /\ ExtraIdle
  /\ \E n \in 0..MaxData : data = PlainOf(n, 1)
  /\ api = "late"
  /\ e_pending = data
  /\ e_writes = 0
  /\ \E done \in {MAX_CHUNKS_PER_VIDEO - 1, MAX_CHUNKS_PER_VIDEO} :
       enc = [EncryptionStream(VideoKeyOf[MasterA][EncVideoId], EncVideoId, ChunkSize)
                EXCEPT !.chunkIndex = done, !.bytesProcessed = done * ChunkSize]
  /\ ser = <<>>
  /\ d_mode = "idle"
  /\ d_attack = "none"
  /\ d_call = NoCall
  /\ d_input = <<>>
  /\ des = NoStream
  /\ dec = NoStream
  /\ d_taken = 0
  /\ encoding = "binary"
  /\ e_text = <<>>
  /\ r_rest = <<>>
  /\ tdec = NoStream

CeilingNext == EncWrite \/ EncEnd \/ SerTransform

SpecCeiling == CeilingInit /\ [][CeilingNext]_vars

\* ============================================================ entry points
MIN_CHUNK_SIZE == 1024
\* CONFIG.CHUNK_SIZE, the frame size used when options.chunkSize is missing or 0
CONFIG_CHUNK_SIZE == 524288

\* validateChunkSize(chunkSize) of an integer (the option values of the model
\* are integers, so Number.isInteger holds)
validateChunkSize(chunkSize) ==
  IF chunkSize < MIN_CHUNK_SIZE THEN ValidationError("chunkSize")
  ELSE IF chunkSize > MAX_CHUNK_SIZE THEN ValidationError("chunkSize")
  ELSE NoError

\* the chunkSize option of a call: left out, or an integer
NoOption == [defined |-> FALSE, value |-> 0]
Option(n) == [defined |-> TRUE, value |-> n]

ChunkSizeOptions ==
  {NoOption} \cup {Option(n) : n \in {0, 1, ChunkSize, MIN_CHUNK_SIZE - 1, MIN_CHUNK_SIZE,
                                      MAX_CHUNK_SIZE, MAX_CHUNK_SIZE + 1}}

\* this.chunkSize = options.chunkSize || CONFIG.CHUNK_SIZE
chunkSizeOf(option) ==
  IF option.defined /\ option.value # 0 THEN option.value ELSE CONFIG_CHUNK_SIZE

\* no encrypt call was made yet; data is the input it will be given
EntryInit ==
  /\ ChunkIdle
  /\ ParserIdle
  /\ ExtraIdle
  /\ \E n \in 0..MaxData : data = PlainOf(n, 1)
  /\ api = "none"
  /\ e_pending = data
  /\ e_writes = 0
  /\ enc = NoStream
  /\ ser = <<>>
  /\ d_mode = "idle"
  /\ d_attack = "none"
  /\ d_call = NoCall
  /\ d_input = <<>>
  /\ des = NoStream
  /\ dec = NoStream
  /\ d_taken = 0
  /\ encoding = "binary"
  /\ e_text = <<>>
  /\ r_rest = <<>>
  /\ tdec = NoStream

\* encryptFile({inputPath, outputPath, masterKey, videoId, chunkSize}): the
\* validations, then deriveVideoKey and new EncryptionStream
EncryptFileCall ==
  /\ api = "none"
  /\ \E option \in ChunkSizeOptions :
       LET err == FirstError(<<validateMasterKey(MasterA), validateVideoId(EncVideoId),
                               IF option.defined THEN validateChunkSize(option.value)
                               ELSE NoError>>)
       IN  /\ e_call' = [entry |-> "encryptFile", chunkSize |-> option, err |-> err,
                         derived |-> (err = NoError)]
           /\ enc' = IF err # NoError THEN NoStream
                     ELSE EncryptionStream(deriveVideoKey(MasterA, EncVideoId), EncVideoId,
                                           chunkSizeOf(option))
  /\ api' = "file"
  /\ UNCHANGED <<data, e_pending, e_writes, ser, d_mode, d_attack, d_call, d_input, des, dec,
                 d_taken, fvars, cvars, pvars, kvars, o_sess, yvars>>

\* encryptBuffer({data, masterKey, videoId, chunkSize}): deriveVideoKey, then
\* new EncryptionStream
EncryptBufferCall ==
  /\ api = "none"
  /\ \E option \in ChunkSizeOptions :
       LET err == FirstError(<<validateMasterKey(MasterA), validateVideoId(EncVideoId)>>)
       IN  /\ e_call' = [entry |-> "encryptBuffer", chunkSize |-> option, err |-> err,
                         derived |-> (err = NoError)]
           /\ enc' = IF err # NoError THEN NoStream
                     ELSE EncryptionStream(deriveVideoKey(MasterA, EncVideoId), EncVideoId,
                                           chunkSizeOf(option))
  /\ api' = "buffer"
  /\ UNCHANGED <<data, e_pending, e_writes, ser, d_mode, d_attack, d_call, d_input, des, dec,
                 d_taken, fvars, cvars, pvars, kvars, o_sess, yvars>>

\* new EncryptionStream(videoKey, videoId, { chunkSize }) by a caller that holds
\* the subkey
EncryptionStreamNew ==
  /\ api = "none"
  /\ \E option \in ChunkSizeOptions :
       /\ e_call' = [entry |-> "EncryptionStream", chunkSize |-> option, err |-> NoError,
                     derived |-> FALSE]
       /\ enc' = EncryptionStream(VideoKeyOf[MasterA][EncVideoId], EncVideoId,
                                  chunkSizeOf(option))
  /\ api' = "stream"
  /\ UNCHANGED <<data, e_pending, e_writes, ser, d_mode, d_attack, d_call, d_input, des, dec,
                 d_taken, fvars, cvars, pvars, kvars, o_sess, yvars>>

EntryNext ==
  \/ EncryptFileCall
  \/ EncryptBufferCall
  \/ EncryptionStreamNew
  \/ EncWrite
  \/ EncEnd
  \/ SerTransform

SpecEntry == EntryInit /\ [][EntryNext]_vars

\* ============================================================ key helpers
\* argument values: a Buffer, a string (char codes), undefined, null or a number
Buf(b) == [type |-> "buffer", data |-> b]
Str(chars) == [type |-> "string", data |-> chars]
Num(n) == [type |-> "number", data |-> <<n>>]
Undefined == [type |-> "undefined", data |-> <<>>]
Null == [type |-> "null", data |-> <<>>]

\* !value
Falsy(v) ==
  \/ v.type \in {"undefined", "null"}
  \/ v.type = "string" /\ v.data = <<>>
  \/ v.type = "number" /\ v.data = <<0>>

\* validateMasterKey(masterKey) of any argument value
validateMasterKeyValue(v) ==
  IF Falsy(v) THEN ValidationError("masterKey")
  ELSE IF v.type # "buffer" THEN ValidationError("masterKey")
  ELSE validateMasterKey(v.data)

\* validateVideoId(videoId) of any argument value
validateVideoIdValue(v) ==
  IF Falsy(v) THEN ValidationError("videoId")
  ELSE IF v.type # "string" THEN ValidationError("videoId")
  ELSE validateVideoId(v.data)

Outcome(err, value) == [err |-> err, value |-> value]

\* generateMasterKey() when crypto.randomBytes(32) returned key
generateMasterKey(key) ==
  LET err == validateMasterKey(key) IN
  IF err # NoError THEN Outcome(err, <<>>) ELSE Outcome(NoError, key)

\* a variant of exportMasterKey that writes each byte with toString(16), so
\* without the leading zero of a byte below 16
exportMasterKey_Unpadded(masterKey) ==
  LET err == validateMasterKeyValue(masterKey) IN
  IF err # NoError THEN Outcome(err, <<>>)
  ELSE Outcome(NoError,
         Concat([i \in 1..Len(masterKey.data) |->
                   IF masterKey.data[i] < 16 THEN <<HexDigit(masterKey.data[i])>>
                   ELSE <<HexDigit(masterKey.data[i] \div 16),
                          HexDigit(masterKey.data[i] % 16)>>]))

\* exportMasterKey(masterKey): masterKey.toString('hex')
exportMasterKey(masterKey) ==
  LET err == validateMasterKeyValue(masterKey) IN
  IF err # NoError THEN Outcome(err, <<>>) ELSE Outcome(NoError, HexEncode(masterKey.data))

\* /^[0-9a-fA-F]+$/.test(chars)
IsHexString(chars) == chars # <<>> /\ \A i \in 1..Len(chars) : HexValue(chars[i]) >= 0

\* importMasterKey(hexKey)
importMasterKey(hexKey) ==
  IF Falsy(hexKey) \/ hexKey.type # "string"
    THEN Outcome(PlainError("Hex key deve ser uma string nao vazia"), <<>>)
  ELSE IF ~IsHexString(hexKey.data)
    THEN Outcome(PlainError("Hex key contem caracteres invalidos"), <<>>)
  ELSE LET key == HexDecode(hexKey.data)
           err == validateMasterKey(key)
       IN  IF err # NoError THEN Outcome(err, <<>>) ELSE Outcome(NoError, key)

\* a 32-byte buffer with exactly d distinct byte values, none of them zero
KeyOfDistinct(d) == [i \in 1..KEY_LENGTH |-> ((i - 1) % d) + 1]
\* the same with the value zero among them
KeyWithZero(d) == [i \in 1..KEY_LENGTH |-> (i - 1) % d]
\* Buffer.alloc(n, fill...) of n bytes that are all different
BufferOfLen(n) == [i \in 1..n |-> (i * 3) % 256]

\* buffers crypto.randomBytes(32) can return and a caller can hold
KeyBuffers ==
  {MasterA, MasterB}
  \cup {KeyOfDistinct(d) : d \in 1..KEY_LENGTH}
  \cup {KeyWithZero(d) : d \in {1, 2, 15, 16, 17}}

\* values a caller can pass as masterKey
KeyArgs ==
  {Buf(k) : k \in KeyBuffers}
  \cup {Buf(BufferOfLen(n)) : n \in {0, 16, 31, 33, 64}}
  \cup {Undefined, Null, Num(0), Num(5), Str(<<>>), Str(<<110, 111, 116>>),
        Str(HexEncode(MasterA))}

UpperCase(chars) ==
  [i \in 1..Len(chars) |-> IF chars[i] \in 97..122 THEN chars[i] - 32 ELSE chars[i]]

\* values a caller can pass as hexKey: exported keys, in upper case, with one
\* character more or less, with a character that is no hex digit, and no strings
HexArgs ==
  LET good == {HexEncode(k) : k \in {MasterA, MasterB, KeyOfDistinct(15),
                                       KeyOfDistinct(16), KeyWithZero(1)}}
  IN  {Str(h) : h \in good}
      \cup {Str(UpperCase(h)) : h \in good}
      \cup {Str(h \o <<c>>) : h \in good, c \in {48, 102}}
      \cup {Str(h \o <<c, c>>) : h \in good, c \in {48}}
      \cup {Str(SubSeq(h, 1, n)) : h \in good, n \in {1, 2, 62, 63}}
      \cup {Str([h EXCEPT ![p] = c]) : h \in good, p \in {1, 64}, c \in {103, 32, 10}}
      \cup {Str(h \o <<10>>) : h \in good}
      \cup {Str(<<>>), Undefined, Null, Num(7), Buf(MasterA)}

\* strings of n letters
Letters(n) == [i \in 1..n |-> 97 + (i % 26)]

\* values a caller can pass as videoId
IdArgs ==
  {Str(Letters(n)) : n \in {1, 2, MAX_VIDEO_ID_LENGTH - 1, MAX_VIDEO_ID_LENGTH,
                            MAX_VIDEO_ID_LENGTH + 1, MAX_VIDEO_ID_LENGTH + 2,
                            MAX_VIDEO_ID_LENGTH + 3}}
  \cup {Str(<<118, c, 49>>) : c \in {45, 95, 58, 46, 65, 90, 48, 57, 64, 35, 47, 92, 32, 10,
                                     233}}
  \cup {Str(<<c>>) : c \in {45, 46, 64}}
  \cup {Str(<<>>), Undefined, Null, Num(123), Buf(<<118, 49>>)}

KeysInit == ChunkIdle /\ SessionIdle /\ ParserIdle /\ ExtraIdle

\* validateMasterKey(value)
KeyValidate ==
  /\ k_op = "none"
  /\ \E v \in KeyArgs :
       /\ k_in' = v
       /\ k_out' = Outcome(validateMasterKeyValue(v), <<>>)
  /\ k_op' = "validateMasterKey"
  /\ UNCHANGED <<cvars, svars, pvars, e_call, o_sess, yvars>>

\* generateMasterKey(); k_in is what crypto.randomBytes(32) returned
KeyGenerate ==
  /\ k_op = "none"
  /\ \E key \in KeyBuffers :
       /\ k_in' = Buf(key)
       /\ k_out' = generateMasterKey(key)
  /\ k_op' = "generateMasterKey"
  /\ UNCHANGED <<cvars, svars, pvars, e_call, o_sess, yvars>>

\* exportMasterKey(value)
KeyExport ==
  /\ k_op = "none"
  /\ \E v \in KeyArgs :
       /\ k_in' = v
       /\ k_out' = exportMasterKey(v)
  /\ k_op' = "exportMasterKey"
  /\ UNCHANGED <<cvars, svars, pvars, e_call, o_sess, yvars>>

\* importMasterKey(value)
KeyImport ==
  /\ k_op = "none"
  /\ \E v \in HexArgs :
       /\ k_in' = v
       /\ k_out' = importMasterKey(v)
  /\ k_op' = "importMasterKey"
  /\ UNCHANGED <<cvars, svars, pvars, e_call, o_sess, yvars>>

\* importMasterKey(exported) of the string exportMasterKey(k_in) returned
KeyReimport ==
  /\ k_op = "exportMasterKey"
  /\ k_out.err = NoError
  /\ k_out' = importMasterKey(Str(k_out.value))
  /\ k_op' = "reimport"
  /\ UNCHANGED <<k_in, cvars, svars, pvars, e_call, o_sess, yvars>>

\* validateVideoId(value)
IdValidate ==
  /\ k_op = "none"
  /\ \E v \in IdArgs :
       /\ k_in' = v
       /\ k_out' = Outcome(validateVideoIdValue(v), <<>>)
  /\ k_op' = "validateVideoId"
  /\ UNCHANGED <<cvars, svars, pvars, e_call, o_sess, yvars>>

KeysNext ==
  \/ KeyValidate
  \/ KeyGenerate
  \/ KeyExport
  \/ KeyImport
  \/ KeyReimport
  \/ IdValidate

SpecKeys == KeysInit /\ [][KeysNext]_vars

\* ============================================================ stream objects
\* the sessions driven side by side
Sessions == {1, 2}
\* bytes of input of an encrypt session, frames of input of a decrypt session
ObjData == 2
ObjFrames == 2

\* the object id of session s ("v1", "v2"); its subkey is VideoKeyOf[MasterA] of it
SessionVideoId(s) == IF s = 1 THEN <<118, 49>> ELSE <<118, 50>>

\* new DecryptionStream(videoKey, videoId, options): the options only reach
\* the Transform base class
DecryptionStreamWith(videoKey, videoId, options) == DecryptionStream(videoKey, videoId)

\* the frames written to decrypt session s: ObjFrames frames sealed under its
\* subkey, the bad-th of them (if any) with one bit of its tag inverted
SessionFrames(s, bad) ==
  [i \in 1..ObjFrames |->
     LET f == encryptChunk(PlainOf(1, i), VideoKeyOf[MasterA][SessionVideoId(s)],
                           SessionVideoId(s), i - 1, [j \in 1..IV_LENGTH |-> (37 + j) % 256])
     IN  IF i = bad THEN [f EXCEPT !.tag = FlipAt(f.tag, 1, 0)] ELSE f]

\* the stream object of a session, as its constructor leaves it
NewStream(kind, s, options) ==
  IF kind = "enc"
    THEN EncryptionStream(VideoKeyOf[MasterA][SessionVideoId(s)], SessionVideoId(s),
                          chunkSizeOf(options.chunkSize))
    ELSE DecryptionStreamWith(VideoKeyOf[MasterA][SessionVideoId(s)], SessionVideoId(s),
                              options)

\* session s: its stream, the input still to be written to it, and the log of
\* the calls made on it so far
NewSession(kind, s, options, todo) ==
  [kind |-> kind, options |-> options, st |-> NewStream(kind, s, options), todo |-> todo,
   log |-> <<>>]

SessionOptions(kind) ==
  IF kind = "enc" THEN {[chunkSize |-> Option(ChunkSize)]}
  ELSE {[permissive_decrypt |-> b] : b \in BOOLEAN}

SessionInputs(kind, s) ==
  IF kind = "enc" THEN {PlainOf(ObjData, s)}
  ELSE {SessionFrames(s, bad) : bad \in 0..ObjFrames}

NewSessions(s) ==
  UNION {{NewSession(kind, s, o, t) : o \in SessionOptions(kind), t \in SessionInputs(kind, s)} :
           kind \in {"enc", "dec"}}

ObjInit ==
  /\ ChunkIdle
  /\ SessionIdle
  /\ ParserIdle
  /\ KeysIdle
  /\ e_call = NoEntry
  /\ LaterIdle
  /\ o_sess \in {q \in [Sessions -> UNION {NewSessions(s) : s \in Sessions}] :
                   \A s \in Sessions : q[s] \in NewSessions(s)}

\* a variant of sessionSet in which chunkIndex is one counter of the module,
\* shared by the EncryptionStreams
sessionSet_SharedCounter(sessions, s, st, todo, entry) ==
  [t \in DOMAIN sessions |->
     IF t = s THEN [sessions[t] EXCEPT !.st = st, !.todo = todo, !.log = Append(@, entry)]
     ELSE IF sessions[t].kind = "enc" /\ sessions[s].kind = "enc"
       THEN [sessions[t] EXCEPT !.st.chunkIndex = st.chunkIndex]
     ELSE sessions[t]]

\* a call on the stream of session s assigns the fields of that object (this.buffer,
\* this.chunkIndex, this.bytesProcessed, ...)
sessionSet(sessions, s, st, todo, entry) ==
  [sessions EXCEPT ![s].st = st, ![s].todo = todo, ![s].log = Append(@, entry)]

\* stream.write(block) on an EncryptionStream
ObjEncWrite ==
  \E s \in Sessions :
    LET ss == o_sess[s] IN
    /\ ss.kind = "enc"
    /\ ss.st.state = "open"
    /\ ss.todo # <<>>
    /\ \E n \in 1..Len(ss.todo) :
         LET block == SubSeq(ss.todo, 1, n)
             k == (Len(ss.st.buffer) + n) \div ss.st.chunkSize
         IN  \E ivs \in [1..k -> Nonces] :
               o_sess' = sessionSet(o_sess, s, encryptionTransform(ss.st, block, ivs),
                                    SubSeq(ss.todo, n + 1, Len(ss.todo)),
                                    [op |-> "write", arg |-> block, ivs |-> ivs])
    /\ UNCHANGED <<cvars, svars, pvars, kvars, e_call, yvars>>

\* stream.end() on an EncryptionStream
ObjEncEnd ==
  \E s \in Sessions :
    LET ss == o_sess[s] IN
    /\ ss.kind = "enc"
    /\ ss.st.state = "open"
    /\ ss.todo = <<>>
    /\ \E iv \in (IF Len(ss.st.buffer) > 0 THEN Nonces ELSE {<<>>}) :
         o_sess' = sessionSet(o_sess, s, encryptionFlush(ss.st, iv), ss.todo,
                              [op |-> "end", arg |-> <<>>, ivs |-> <<iv>>])
    /\ UNCHANGED <<cvars, svars, pvars, kvars, e_call, yvars>>

\* stream.write(encryptedChunk) on a DecryptionStream
ObjDecWrite ==
  \E s \in Sessions :
    LET ss == o_sess[s] IN
    /\ ss.kind = "dec"
    /\ ss.st.state = "open"
    /\ ss.todo # <<>>
    /\ o_sess' = sessionSet(o_sess, s, decryptionTransform(ss.st, Head(ss.todo)), Tail(ss.todo),
                            [op |-> "write", arg |-> Head(ss.todo), ivs |-> <<>>])
    /\ UNCHANGED <<cvars, svars, pvars, kvars, e_call, yvars>>

\* stream.end() on a DecryptionStream
ObjDecEnd ==
  \E s \in Sessions :
    LET ss == o_sess[s] IN
    /\ ss.kind = "dec"
    /\ ss.st.state = "open"
    /\ ss.todo = <<>>
    /\ o_sess' = sessionSet(o_sess, s, [ss.st EXCEPT !.state = "ended"], ss.todo,
                            [op |-> "end", arg |-> <<>>, ivs |-> <<>>])
    /\ UNCHANGED <<cvars, svars, pvars, kvars, e_call, yvars>>

ObjNext == ObjEncWrite \/ ObjEncEnd \/ ObjDecWrite \/ ObjDecEnd

SpecObjects == ObjInit /\ [][ObjNext]_vars

\* ------------------------------------------------------------ text runs
\* A text of lines is written to a TextDecodingStream in blocks of any sizes.
MaxLines == 2

MaxBlock == 3

TextEncodings == {"base64", "hex"}

\* the records a line can carry
TextRecords == {<<1>>, <<200, 7>>, <<255, 0, 16>>}

\* a line of the text: a record (none for a blank line) and the white space around it
TextLines ==
  [rec : TextRecords, pad : {"none", "cr"}] \cup [rec : {<<>>}, pad : {"none", "space", "cr"}]

\* the characters of a line, without its line feed
lineText(line, enc0) ==
  LET body == IF line.rec = <<>> THEN <<>>
              ELSE LET t == textEncodingTransform(line.rec, enc0)
                   IN  SubSeq(t, 1, Len(t) - 1)
  IN  IF line.pad = "cr" THEN body \o <<13>>
      ELSE IF line.pad = "space" THEN <<32>> \o body \o <<32>>
      ELSE body

\* the lines joined by line feeds; the last line ends with one or not
RECURSIVE textOf(_, _, _)
textOf(lines, enc0, closed) ==
  IF lines = <<>> THEN <<>>
  ELSE lineText(Head(lines), enc0)
       \o (IF Len(lines) > 1 \/ closed THEN <<10>> ELSE <<>>)
       \o textOf(Tail(lines), enc0, closed)

TextInit ==
  /\ ChunkIdle
  /\ SessionIdle
  /\ ParserIdle
  /\ KeysIdle
  /\ e_call = NoEntry
  /\ o_sess = <<>>
  /\ LimiterIdle
  /\ w_call = NoSubkeyCall
  /\ d_kept = 0
  /\ \E k \in 0..MaxLines : t_lines \in [1..k -> TextLines]
  /\ \E enc0 \in TextEncodings : \E closed \in BOOLEAN :
       /\ t_rest = textOf(t_lines, enc0, closed)
       /\ t_dec = TextDecodingStream(enc0)
  /\ t_cut = FALSE

\* textDecodingStream.write(block), the block being any next piece of the text
TextWrite ==
  /\ t_dec.state = "open"
  /\ t_rest # <<>>
  /\ \E n \in {k \in 1..MaxBlock : k < Len(t_rest)} \cup {Len(t_rest)} :
       /\ t_dec' = textDecodingTransform(t_dec, SubSeq(t_rest, 1, n))
       /\ t_rest' = SubSeq(t_rest, n + 1, Len(t_rest))
       /\ t_cut' = (t_cut \/ (n < Len(t_rest) /\ t_rest[n] # 10 /\ t_rest[n + 1] # 10))
  /\ UNCHANGED <<t_lines, cvars, svars, pvars, kvars, e_call, o_sess, w_call, lvars, d_kept>>

\* textDecodingStream.end()
TextEnd ==
  /\ t_dec.state = "open"
  /\ t_rest = <<>>
  /\ t_dec' = textDecodingFlush(t_dec)
  /\ UNCHANGED <<t_lines, t_rest, t_cut, cvars, svars, pvars, kvars, e_call, o_sess,
                 w_call, lvars, d_kept>>

TextNext == TextWrite \/ TextEnd

SpecText == TextInit /\ [][TextNext]_vars

\* ------------------------------------------------------------ subkey calls
\* encryptChunk and decryptChunk called with the subkey deriveVideoKey returned,
\* which can be any 32 bytes, for a valid object id.
SubkeyInit == ChunkIdle /\ SessionIdle /\ ParserIdle /\ ExtraIdle

SubkeyCall(op, videoKey, videoId, chunkIndex, err) ==
  [op |-> op, videoKey |-> videoKey, videoId |-> videoId, chunkIndex |-> chunkIndex,
   err |-> err]

\* encryptChunk(plaintext, videoKey, videoId, chunkIndex)
SubkeyEncrypt ==
  /\ w_call = NoSubkeyCall
  /\ \E k \in KeyBuffers, v \in VideoIds, i \in 0..MaxIndex :
       w_call' = SubkeyCall("encryptChunk", k, v, i, encryptChunkError(PlainOf(1, 1), k, v, i))
  /\ UNCHANGED <<cvars, svars, pvars, kvars, e_call, o_sess, tvars, lvars, d_kept>>

\* decryptChunk(encryptedChunk, videoKey, videoId) of a frame sealed with this
\* subkey, object id and index
SubkeyDecrypt ==
  /\ w_call = NoSubkeyCall
  /\ \E k \in KeyBuffers, v \in VideoIds, i \in 0..MaxIndex, iv \in Nonces :
       w_call' = SubkeyCall("decryptChunk", k, v, i,
                            decryptChunk(encryptChunk(PlainOf(1, 1), k, v, i, iv), k, v).err)
  /\ UNCHANGED <<cvars, svars, pvars, kvars, e_call, o_sess, tvars, lvars, d_kept>>

\* an EncryptionStream made with this subkey is written one byte and ended
SubkeySession ==
  /\ w_call = NoSubkeyCall
  /\ \E k \in KeyBuffers, v \in VideoIds, iv \in Nonces :
       w_call' = SubkeyCall("EncryptionStream", k, v, 0,
                   encryptionFlush(encryptionTransform(EncryptionStream(k, v, ChunkSize),
                                                       PlainOf(1, 1), <<>>), iv).error)
  /\ UNCHANGED <<cvars, svars, pvars, kvars, e_call, o_sess, tvars, lvars, d_kept>>

SubkeyNext == SubkeyEncrypt \/ SubkeyDecrypt \/ SubkeySession

SpecSubkey == SubkeyInit /\ [][SubkeyNext]_vars

\* ------------------------------------------------------------ RateLimiter
MaxRequests == 2

MaxWindow == 2

MaxTime == 4

LimiterKeys == {"a", "b"}

\* new RateLimiter(maxRequests, windowMs); requests maps a key to {count, resetAt}
RateLimiter(maxRequests, windowMs) ==
  [maxRequests |-> maxRequests, windowMs |-> windowMs, requests |-> <<>>]

\* this.requests.set(key, value)
mapSet(map, key, value) == [k \in DOMAIN map \cup {key} |-> IF k = key THEN value ELSE map[k]]

\* this.requests.delete(key)
mapDelete(map, key) == [k \in DOMAIN map \ {key} |-> map[k]]

\* a variant of check that counts the call before testing the limit
check_CountFirst(lim, key, now) ==
  LET requestData == IF key \in DOMAIN lim.requests THEN lim.requests[key]
                     ELSE [count |-> 0, resetAt |-> 0]
      fresh == [count |-> 1, resetAt |-> now + lim.windowMs]
      counted == [requestData EXCEPT !.count = @ + 1]
  IN  IF key \notin DOMAIN lim.requests \/ now > requestData.resetAt
        THEN [lim |-> [lim EXCEPT !.requests = mapSet(@, key, fresh)], result |-> TRUE]
      ELSE [lim |-> [lim EXCEPT !.requests = mapSet(@, key, counted)],
            result |-> counted.count <= lim.maxRequests]

\* check(key) when Date.now() returns now: the limiter afterwards and what it returns
check(lim, key, now) ==
  LET requestData == IF key \in DOMAIN lim.requests THEN lim.requests[key]
                     ELSE [count |-> 0, resetAt |-> 0]
      fresh == [count |-> 1, resetAt |-> now + lim.windowMs]
  IN  IF key \notin DOMAIN lim.requests
        THEN [lim |-> [lim EXCEPT !.requests = mapSet(@, key, fresh)], result |-> TRUE]
      ELSE IF now > requestData.resetAt
        THEN [lim |-> [lim EXCEPT !.requests = mapSet(@, key, fresh)], result |-> TRUE]
      ELSE IF requestData.count >= lim.maxRequests
        THEN [lim |-> lim, result |-> FALSE]
      ELSE [lim |-> [lim EXCEPT !.requests =
                       mapSet(@, key, [requestData EXCEPT !.count = @ + 1])],
            result |-> TRUE]

\* reset(key)
reset(lim, key) == [lim EXCEPT !.requests = mapDelete(@, key)]

\* a variant of cleanup that also deletes an entry whose resetAt is now
cleanup_AtExpiry(lim, now) ==
  [lim EXCEPT !.requests =
     [k \in {j \in DOMAIN lim.requests : ~(now >= lim.requests[j].resetAt)} |-> lim.requests[k]]]

\* cleanup() when Date.now() returns now
cleanup(lim, now) ==
  [lim EXCEPT !.requests =
     [k \in {j \in DOMAIN lim.requests : ~(now > lim.requests[j].resetAt)} |-> lim.requests[k]]]

\* no window of a key: none was opened, or reset(key) ended it
NoWindow == [open |-> -1, allowed |-> 0]

\* whether, at time now, the window of a key is over or there is none
windowOver(win, windowMs, now) == win.open = -1 \/ now > win.open + windowMs

LimiterCall(op, key, time, result, fresh) ==
  [op |-> op, key |-> key, time |-> time, result |-> result, fresh |-> fresh]

LimiterInit ==
  /\ ChunkIdle
  /\ SessionIdle
  /\ ParserIdle
  /\ KeysIdle
  /\ e_call = NoEntry
  /\ o_sess = <<>>
  /\ TextIdle
  /\ w_call = NoSubkeyCall
  /\ d_kept = 0
  /\ \E maxRequests \in 0..MaxRequests, windowMs \in 1..MaxWindow :
       rl = RateLimiter(maxRequests, windowMs)
  /\ rl_now = 0
  /\ rl_last = NoLimiterCall
  /\ rl_prev = <<>>
  /\ rl_win = [k \in LimiterKeys |-> NoWindow]

\* limiter.check(key); the allowed call that finds no window open opens one
LimiterCheck ==
  /\ \E key \in LimiterKeys :
       LET r == check(rl, key, rl_now)
           over == windowOver(rl_win[key], rl.windowMs, rl_now)
       IN  /\ rl' = r.lim
           /\ rl_last' = LimiterCall("check", key, rl_now, r.result, over)
           /\ rl_win' = IF ~r.result THEN rl_win
                        ELSE IF over
                          THEN [rl_win EXCEPT ![key] = [open |-> rl_now, allowed |-> 1]]
                        ELSE [rl_win EXCEPT ![key].allowed = @ + 1]
  /\ rl_prev' = rl.requests
  /\ UNCHANGED <<rl_now, cvars, svars, pvars, kvars, e_call, o_sess, tvars, w_call, d_kept>>

\* limiter.reset(key)
LimiterReset ==
  /\ \E key \in LimiterKeys :
       /\ rl' = reset(rl, key)
       /\ rl_last' = LimiterCall("reset", key, rl_now, FALSE, FALSE)
       /\ rl_win' = [rl_win EXCEPT ![key] = NoWindow]
  /\ rl_prev' = rl.requests
  /\ UNCHANGED <<rl_now, cvars, svars, pvars, kvars, e_call, o_sess, tvars, w_call, d_kept>>

\* limiter.cleanup()
LimiterCleanup ==
  /\ rl' = cleanup(rl, rl_now)
  /\ rl_last' = LimiterCall("cleanup", "", rl_now, FALSE, FALSE)
  /\ rl_prev' = rl.requests
  /\ UNCHANGED <<rl_now, rl_win, cvars, svars, pvars, kvars, e_call, o_sess, tvars, w_call,
                 d_kept>>

\* a millisecond passes
LimiterTick ==
  /\ rl_now < MaxTime
  /\ rl_now' = rl_now + 1
  /\ UNCHANGED <<rl, rl_last, rl_prev, rl_win, cvars, svars, pvars, kvars, e_call, o_sess,
                 tvars, w_call, d_kept>>

LimiterNext == LimiterCheck \/ LimiterReset \/ LimiterCleanup \/ LimiterTick

SpecLimiter == LimiterInit /\ [][LimiterNext]_vars

\* ============================================================ claims
\* the decrypt call used the master and object id of the encrypt session
SameKeyAndId == d_call.master = MasterA /\ d_call.videoId = EncVideoId

\* decryptChunk was called with the subkey and object id the frame was made with
OriginalCall ==
  /\ c_result # NoResult
  /\ c_call = [master |-> c_made.master, keyId |-> c_made.videoId, videoId |-> c_made.videoId]

AuthFailed(d) == d.state = "errored" /\ d.error.detail = "Falha na autenticacao do chunk"

\* C1: decryptBuffer applied to the frames encryptBuffer(B, M, O) returned, with
\* the same M and O, resolves to exactly B (the empty string for empty B).
C1_BufferRoundTrip ==
  (api = "buffer" /\ d_mode = "raw" /\ d_attack = "none" /\ SameKeyAndId
     /\ dec.state \in {"ended", "errored"})
  => (dec.state = "ended" /\ Concat(dec.pushed) = data)

\* C2: decryptFile applied to the file encryptFile wrote, with the same master
\* key, object id and encoding, completes and writes exactly the input bytes,
\* whatever blocks the reader delivered.
C2_FileRoundTrip ==
  (d_mode = "file" /\ SameKeyAndId /\ dec.state \in {"ended", "errored"})
  => (dec.state = "ended" /\ Concat(dec.pushed) = data)

\* C8: a non-empty file encrypted under master M1 and decrypted with another
\* master M2 and the same object id makes decryptFile reject with the
\* authentication error.
C8_WrongMaster ==
  (d_mode = "file" /\ data # <<>> /\ d_call.master # MasterA /\ d_call.videoId = EncVideoId
     /\ dec.state \in {"ended", "errored"})
  => AuthFailed(dec)

\* C3: when two frames of an encrypted stream are swapped, decryption with the
\* right key and object id fails instead of completing.
C3_ReorderDetected ==
  (d_attack = "swap" /\ SameKeyAndId) => dec.state # "ended"

\* C4: the decrypt framer accepts a frame only when its index equals the number
\* of frames accepted before it (next expected index, starting at 0).
C4_ExpectedIndex ==
  dec.state # "none" => \A j \in 1..Len(dec.accepted) : dec.accepted[j] = j - 1

\* C5: a decrypt session that completes has delivered the plaintext of frames
\* 0, 1, 2, ... in that order: a prefix-free, replay-free, in-order output.
C5_CompletedInOrder ==
  dec.state = "ended" =>
    /\ dec.accepted = [j \in 1..Len(dec.accepted) |-> j - 1]
    /\ Concat(dec.pushed) = SubSeq(data, 1, dec.bytesProcessed)

\* C6: inverting any bit of the ciphertext, tag, nonce or index of a frame made
\* by encryptChunk makes decryptChunk, called with the original subkey and
\* object id, fail with the authentication error of that frame, returning no
\* plaintext.
C6_TamperDetected ==
  (c_tamper # "none" /\ OriginalCall) =>
    (~c_result.ok /\ c_result.err = AuthFailure(c_chunk.index) /\ c_result.plaintext = <<>>)

C6_Witness ==
  /\ c_tamper = "index"
  /\ OriginalCall
  /\ c_result.err = AuthFailure(c_chunk.index)
  /\ c_chunk.index # c_made.index

\* C7: decryptChunk called with the very subkey of the frame but another object
\* id fails with the authentication error.
C7_WrongObjectId ==
  (c_tamper = "none" /\ c_result # NoResult /\ c_call.master = c_made.master
     /\ c_call.keyId = c_made.videoId /\ c_call.videoId # c_made.videoId)
  => (~c_result.ok /\ c_result.err = AuthFailure(c_chunk.index))

C7_Witness ==
  /\ c_tamper = "none"
  /\ c_call.master = c_made.master
  /\ c_call.keyId = c_made.videoId
  /\ c_call.videoId # c_made.videoId
  /\ c_result.err = AuthFailure(c_made.index)

\* C9: once a frame failed authentication the session stays failed, and neither
\* that frame's plaintext nor any later one is pushed downstream.
C9_AuthFailureAborts ==
  [][ /\ AuthFailed(dec') => dec'.pushed = dec.pushed
      /\ AuthFailed(dec) => AuthFailed(dec') ]_vars

C9_Witness ==
  /\ AuthFailed(dec)
  /\ Len(dec.pushed) >= 1
  /\ d_taken < Len(des.pushed)

\* C10: the bytes the encrypt pipeline writes are the concatenation of records
\* uint32_be(32 + N) || frame body, one per frame, nothing else.
C10_EnvelopeRecords ==
  (enc.state = "ended" /\ Len(ser) = Len(enc.pushed)) =>
    Concat(ser) = Concat([i \in 1..Len(enc.pushed) |-> LengthPrefixed(toBuffer(enc.pushed[i]))])

\* the envelope stream of the parser run holds whole records of frames only
ValidEnvelope ==
  /\ p_des # NoStream
  /\ p_tail = <<>>
  /\ \A i \in 1..Len(p_bodies) : Len(p_bodies[i]) >= HEADER_TOTAL_SIZE + 1

\* C11: for a valid length-prefixed stream the parser never fails, what it has
\* emitted is always the first records of the stream in order, and once the
\* whole stream was written it has emitted every record, however the bytes
\* were cut into blocks.
C11_SplitInvariance ==
  ValidEnvelope =>
    /\ p_des.state # "errored"
    /\ Len(p_des.pushed) <= Len(p_bodies)
    /\ \A i \in 1..Len(p_des.pushed) : p_des.pushed[i] = fromBuffer(p_bodies[i])
    /\ p_rest = <<>> => Len(p_des.pushed) = Len(p_bodies)

C11_Witness ==
  /\ ValidEnvelope
  /\ Len(p_bodies) = 2
  /\ Len(p_des.pushed) = 1
  /\ Len(p_des.buffer) \in 1..3

\* C12: as soon as the parser holds a length prefix below 33 or above 32 plus
\* the largest frame size it has failed, without waiting for the record.
C12_MalformedEnvelope ==
  (p_des # NoStream /\ Len(p_des.buffer) >= 4
     /\ (ReadU32BE(p_des.buffer) < HEADER_TOTAL_SIZE + 1
          \/ ReadU32BE(p_des.buffer) > HEADER_TOTAL_SIZE + MAX_CHUNK_SIZE))
  => p_des.state = "errored"

\* C13: every frame the deserialization yields comes from a body of at least 33
\* bytes, so it carries at least one ciphertext byte.
C13_ShortFrame ==
  p_des # NoStream =>
    \A i \in 1..Len(p_des.pushed) : Len(p_des.pushed[i].ciphertext) >= 1

\* C14: at end-of-input the parser fails with the number of residual bytes when
\* its buffer is not empty, and ends cleanly only when it is empty.
C14_FlushResidue ==
  [][ParserEnd =>
       IF p_des.buffer # <<>>
         THEN p_des'.state = "errored" /\ p_des'.error.index = Len(p_des.buffer)
         ELSE p_des'.state = "ended" /\ p_des'.error = NoError]_vars

C14_Witness ==
  /\ p_des # NoStream
  /\ p_des.state = "errored"
  /\ p_des.error.detail = "Buffer contem bytes nao processados"
  /\ p_des.error.index = 4
  /\ Len(p_des.pushed) >= 1

\* C15: in an encrypt session with frame size F every emitted frame carries
\* between 1 and F plaintext bytes, and a frame shorter than F is the last frame
\* of a session that has ended.
C15_FrameSizes ==
  (api \in {"buffer", "stream"}) =>
    \A k \in 1..Len(enc.pushed) :
      LET n == Len(enc.pushed[k].ciphertext) IN
      /\ n \in 1..enc.chunkSize
      /\ n < enc.chunkSize => (k = Len(enc.pushed) /\ enc.state = "ended")

C15_Witness ==
  /\ api = "stream"
  /\ enc.state = "ended"
  /\ e_writes >= 3
  /\ Len(enc.pushed) = 3
  /\ Len(enc.pushed[2].ciphertext) = enc.chunkSize
  /\ Len(enc.pushed[3].ciphertext) = 1

\* C16: an encrypt session that ended over L input bytes has emitted exactly
\* ceil(L / F) frames: none for the empty input, L / F when F divides L.
C16_FrameCount ==
  (api \in {"buffer", "stream"} /\ enc.state = "ended") =>
    Len(enc.pushed) = (Len(data) + enc.chunkSize - 1) \div enc.chunkSize

C16_Witness ==
  /\ api = "stream"
  /\ enc.state = "ended"
  /\ e_writes >= 2
  /\ Len(data) = 2 * enc.chunkSize
  /\ Len(enc.pushed) = 2

\* C17: frames are only ever appended to what the session emitted, and the
\* k-th emitted frame has index k - 1.
C17_FrameIndices ==
  [][(api \in {"buffer", "stream"}) =>
       /\ Len(enc'.pushed) >= Len(enc.pushed)
       /\ SubSeq(enc'.pushed, 1, Len(enc.pushed)) = enc.pushed
       /\ \A k \in 1..Len(enc'.pushed) : enc'.pushed[k].index = k - 1]_vars

C17_Witness ==
  /\ api = "stream"
  /\ e_writes >= 3
  /\ Len(enc.pushed) = 3
  /\ enc.pushed[3].index = 2

\* C18: no emitted frame has an index above MAX_CHUNKS_PER_VIDEO; a session
\* fails only with SecurityError TOO_MANY_CHUNKS, at the frame after the
\* ceiling, and a failed session emits nothing more.
C18_ChunkCeiling ==
  /\ [](api = "late" =>
         /\ \A k \in 1..Len(enc.pushed) : enc.pushed[k].index <= MAX_CHUNKS_PER_VIDEO
         /\ enc.state = "errored" =>
              (enc.error = SecurityError("TOO_MANY_CHUNKS")
                 /\ enc.chunkIndex = MAX_CHUNKS_PER_VIDEO + 1))
  /\ [][enc.state = "errored" => enc' = enc]_vars

C18_Witness ==
  /\ api = "late"
  /\ enc.state = "errored"
  /\ enc.error = SecurityError("TOO_MANY_CHUNKS")
  /\ Len(enc.pushed) = 2
  /\ enc.pushed[2].index = MAX_CHUNKS_PER_VIDEO

\* C19: decryptChunk rejects a frame whose index is above MAX_CHUNKS_PER_VIDEO
\* with a validation or security error, whether or not its tag authenticates.
C19_DecryptIndexChecked ==
  (c_result # NoResult /\ c_chunk.index > MAX_CHUNKS_PER_VIDEO) =>
    (~c_result.ok /\ c_result.err.name \in {"ValidationError", "SecurityError"})

\* the encrypt session failed with a ValidationError or a SecurityError
ArgumentErrorRaised ==
  /\ api = "late"
  /\ enc.state = "errored"
  /\ enc.error.name \in {"ValidationError", "SecurityError"}

BadFrameSize == e_call.chunkSize.defined /\ validateChunkSize(e_call.chunkSize.value) # NoError

\* C21: every encrypt entry point (encryptFile, encryptBuffer, the
\* EncryptionStream constructor) rejects a frame size outside [1024, 10 * 2^20]
\* with a ValidationError, before a key is derived and before a frame is produced
C21_FrameSizeRejected ==
  (e_call.entry # "none" /\ BadFrameSize) =>
    /\ e_call.err = ValidationError("chunkSize")
    /\ ~e_call.derived
    /\ enc = NoStream

\* a session has ended: end of input, or an error
SessionOver(st) == st.state \in {"ended", "errored"}

\* C22: when an encrypt or decrypt session ends (end of input, error), the
\* subkey it holds and its pending buffer are overwritten with zeros
C22_SubkeyZeroized ==
  /\ (enc.state # "none" /\ SessionOver(enc)) =>
       (enc.videoKey = secureWipe(enc.videoKey) /\ enc.buffer = secureWipe(enc.buffer))
  /\ (dec.state # "none" /\ SessionOver(dec)) => dec.videoKey = secureWipe(dec.videoKey)

\* C24: generateMasterKey draws again when its 32 bytes fail the entropy floor,
\* so it never raises an error and every key it returns passes validateMasterKey
C24_GenerateNeverFails ==
  k_op = "generateMasterKey" =>
    (k_out.err = NoError /\ validateMasterKey(k_out.value) = NoError)

\* the number of distinct byte values of a buffer
DistinctBytes(b) == Cardinality({b[i] : i \in 1..Len(b)})

\* a buffer of exactly 32 bytes
Is32Bytes(v) == v.type = "buffer" /\ Len(v.data) = KEY_LENGTH

\* a buffer of exactly 32 bytes, not all zero, with at least 16 distinct values
StrongKey(v) ==
  /\ Is32Bytes(v)
  /\ \E i \in 1..Len(v.data) : v.data[i] # 0
  /\ DistinctBytes(v.data) >= 16

\* C25: validateMasterKey accepts a value iff it is a buffer of exactly 32
\* bytes, not all zero, with at least 16 distinct byte values; a missing value,
\* wrong type or wrong length raises ValidationError with field masterKey, an
\* all-zero or low-entropy key raises SecurityError with code WEAK_KEY
C25_MasterKeyAccepted ==
  k_op = "validateMasterKey" =>
    /\ (k_out.err = NoError) <=> StrongKey(k_in)
    /\ ~Is32Bytes(k_in) => k_out.err = ValidationError("masterKey")
    /\ (Is32Bytes(k_in) /\ ~StrongKey(k_in)) => k_out.err = SecurityError("WEAK_KEY")

\* a key of exactly 16 distinct byte values was validated and accepted
C25_Witness ==
  /\ k_op = "validateMasterKey"
  /\ Is32Bytes(k_in)
  /\ DistinctBytes(k_in.data) = 16
  /\ k_out.err = NoError

\* C26: validateVideoId accepts exactly the identifiers of 1 to 256 bytes made
\* of letters, digits and '-', '_', ':', '.': 256 allowed characters are
\* accepted, 257 are rejected with a ValidationError
C26_VideoIdAccepted ==
  k_op = "validateVideoId" =>
    /\ (k_out.err = NoError) <=>
         /\ k_in.type = "string"
         /\ Len(k_in.data) \in 1..256
         /\ \A i \in 1..Len(k_in.data) : k_in.data[i] \in VideoIdChars
    /\ k_out.err \in {NoError, ValidationError("videoId")}

\* C27: importMasterKey rejects every string with a character that is no hex
\* digit, every hex string of odd length, and every string that decodes to a
\* value failing the master-key checks; it returns a key only for 64 hex
\* characters that decode to a valid master
C27_ImportRejects ==
  k_op = "importMasterKey" =>
    /\ (k_out.err = NoError) <=>
         /\ k_in.type = "string"
         /\ IsHexString(k_in.data)
         /\ Len(k_in.data) = 2 * KEY_LENGTH
         /\ validateMasterKey(HexDecode(k_in.data)) = NoError
    /\ k_out.err = NoError => k_out.value = HexDecode(k_in.data)

\* lower-case hex digits
LowerHex == (48..57) \cup (97..102)

\* C28: for every valid master key K, importMasterKey(exportMasterKey(K)) = K,
\* and exportMasterKey returns 64 lower-case hex characters
C28_ExportImport ==
  /\ (k_op = "exportMasterKey" /\ StrongKey(k_in)) =>
       /\ k_out.err = NoError
       /\ Len(k_out.value) = 2 * KEY_LENGTH
       /\ \A i \in 1..Len(k_out.value) : k_out.value[i] \in LowerHex
  /\ k_op = "reimport" => (k_out.err = NoError /\ k_out.value = k_in.data)

\* a key with bytes below 16 was exported and imported again
C28_Witness ==
  /\ k_op = "reimport"
  /\ StrongKey(k_in)
  /\ \E i \in 1..Len(k_in.data) : k_in.data[i] < 16
  /\ k_out.value = k_in.data

\* the stream of a session after the calls of log were made on it and on
\* nothing else
RECURSIVE Alone(_, _, _)
Alone(kind, st, log) ==
  IF log = <<>> THEN st
  ELSE LET e == Head(log)
           next == IF kind = "enc"
                     THEN IF e.op = "write" THEN encryptionTransform(st, e.arg, e.ivs)
                          ELSE encryptionFlush(st, e.ivs[1])
                     ELSE IF e.op = "write" THEN decryptionTransform(st, e.arg)
                          ELSE [st EXCEPT !.state = "ended"]
       IN  Alone(kind, next, Tail(log))

\* C29: two sessions driven in any interleaving of their push and end
\* operations share no state: the frames, indices, output and statistics of
\* each are those of the same calls made on it alone
C29_SessionsIndependent ==
  \A s \in DOMAIN o_sess :
    o_sess[s].st = Alone(o_sess[s].kind, NewStream(o_sess[s].kind, s, o_sess[s].options),
                         o_sess[s].log)

\* two encrypt sessions are both under way, each with a frame emitted
C29_Witness ==
  /\ o_sess # <<>>
  /\ \A s \in DOMAIN o_sess :
       /\ o_sess[s].kind = "enc"
       /\ o_sess[s].st.state = "open"
       /\ o_sess[s].st.chunkIndex >= 1

\* C30: with permissive_decrypt = true the decrypt session records one error
\* per failing frame and goes on with the following frames; with the default
\* (false) the first failing frame aborts the session
C30_PermissiveDecrypt ==
  \A s \in DOMAIN o_sess :
    (o_sess[s].kind = "dec" /\ o_sess[s].st.errors # <<>>) =>
      IF o_sess[s].options.permissive_decrypt
        THEN o_sess[s].st.state # "errored"
        ELSE o_sess[s].st.state = "errored"

\* the records of the lines that carry one, in order
RECURSIVE recordsOf(_)
recordsOf(lines) ==
  IF lines = <<>> THEN <<>>
  ELSE (IF Head(lines).rec # <<>> THEN <<Head(lines).rec>> ELSE <<>>) \o recordsOf(Tail(lines))

\* C31: whatever the blocks the text arrives in, the TextDecodingStream pushes one
\* record per line that carries one, in order and nothing for a blank line; while
\* the text is arriving it has pushed the first of them, and at the end of the
\* input all of them, the last line included when it has no line feed.
C31_LinesDecoded ==
  /\ t_dec.state = "open" =>
       /\ Len(t_dec.pushed) <= Len(recordsOf(t_lines))
       /\ t_dec.pushed = SubSeq(recordsOf(t_lines), 1, Len(t_dec.pushed))
  /\ t_dec.state = "ended" => t_dec.pushed = recordsOf(t_lines)

C31_Witness ==
  /\ t_dec.state = "ended"
  /\ t_cut
  /\ Len(t_lines) = 2
  /\ t_lines[1].rec = <<>>
  /\ t_lines[2].rec # <<>>
  /\ t_dec.lineBuffer # <<>>

\* C32: a value a caller passed is rejected with a ValidationError that names a
\* field or with a SecurityError whose code is WEAK_KEY, TOO_MANY_CHUNKS or
\* PATH_TRAVERSAL, and with no other kind of error.
C32_ErrorKinds ==
  k_op # "none" =>
    \/ k_out.err = NoError
    \/ k_out.err.name = "ValidationError" /\ k_out.err.detail # ""
    \/ /\ k_out.err.name = "SecurityError"
       /\ k_out.err.detail \in {"WEAK_KEY", "TOO_MANY_CHUNKS", "PATH_TRAVERSAL"}

\* C33: when an encrypt session has ended, getStats() gives the number of frames
\* pushed as totalChunks and the number of input bytes as bytesProcessed; when a
\* decrypt session has ended, it gives the number of frames decrypted as
\* chunksProcessed and the number of plaintext bytes pushed as bytesProcessed.
C33_StatsAtCompletion ==
  /\ enc.state = "ended" =>
       /\ encryptionStats(enc).totalChunks = Len(enc.pushed)
       /\ encryptionStats(enc).bytesProcessed = Len(data)
  /\ (d_mode # "idle" /\ dec.state = "ended") =>
       /\ decryptionStats(dec).chunksProcessed = Len(dec.pushed)
       /\ decryptionStats(dec).bytesProcessed = Len(Concat(dec.pushed))

C33_Witness ==
  /\ enc.state = "ended"
  /\ Len(data) = 2 * ChunkSize + 1
  /\ encryptionStats(enc).totalChunks = 3
  /\ d_mode # "idle"
  /\ dec.state = "ended"
  /\ decryptionStats(dec).chunksProcessed = 3
  /\ decryptionStats(dec).bytesProcessed = Len(data)

\* the plaintext of the first k frames of the encrypt session
leadingPlaintext(k) ==
  [i \in 1..k |-> SubSeq(data, (i - 1) * ChunkSize + 1,
                         IF i * ChunkSize < Len(data) THEN i * ChunkSize ELSE Len(data))]

C38_PendingBuffer ==
  /\ enc.state = "open" =>
       /\ Len(enc.buffer) < enc.chunkSize
       /\ encryptionStats(enc).bytesProcessed + Len(enc.buffer) = Len(data) - Len(e_pending)
  /\ enc.state = "ended" => enc.buffer = <<>>

C38_Witness ==
  /\ enc.state = "open"
  /\ e_writes >= 2
  /\ e_pending # <<>>
  /\ Len(enc.pushed) = 1
  /\ Len(enc.buffer) = ChunkSize - 1

\* SECURITY_LIMITS.MAX_FILE_SIZE (50 * 1024 * 1024 * 1024 bytes) in units of 1024 bytes
MAX_FILE_SIZE_KIB == 50 * 1024 * 1024

\* the bytes the encrypt session is given in all: those of the frames it had
\* sealed when the run starts, and data
totalInput == (enc.chunkIndex - Len(enc.pushed)) * enc.chunkSize + Len(data)

C39_SubkeyChecked ==
  w_call.op # "none" =>
    /\ DistinctBytes(w_call.videoKey) < 16 => w_call.err = SecurityError("WEAK_KEY")
    /\ DistinctBytes(w_call.videoKey) >= 16 => w_call.err = NoError

C39_Witness ==
  /\ w_call.op = "EncryptionStream"
  /\ w_call.videoKey = KeyOfDistinct(15)
  /\ w_call.err = SecurityError("WEAK_KEY")

\* the last call was made for another key than k, or was a cleanup
otherCall(k) == rl_last.op \in {"check", "reset"} /\ rl_last.key # k

\* the entry of key k in a map of requests, or none
entryOf(map, k) == IF k \in DOMAIN map THEN <<map[k]>> ELSE <<>>

\* C34: for each key, check returns true for at most maxRequests calls within
\* one window, which opens at the first allowed call and lasts windowMs, and
\* false for every further call of the window; a call for another key changes
\* neither the entry nor the window of this key.
C34_AtMostMaxRequests ==
  rl_last.op # "none" =>
    \A k \in LimiterKeys :
      /\ rl_win[k].allowed <= rl.maxRequests
      /\ otherCall(k) => entryOf(rl.requests, k) = entryOf(rl_prev, k)

\* C34 for a limiter made with maxRequests of at least 1
C34_AtMostMaxRequestsFromOne == rl.maxRequests >= 1 => C34_AtMostMaxRequests

\* C35: a check(key) made when the window of the key is over (now is later than
\* its end) or after reset(key) returns true and leaves the entry {count: 1,
\* resetAt: now + windowMs}; cleanup() deletes exactly the entries with
\* now > resetAt and leaves the others as they were.
C35_FreshWindow ==
  /\ (rl_last.op = "check" /\ rl_last.fresh) =>
       /\ rl_last.result
       /\ rl_last.key \in DOMAIN rl.requests
       /\ rl.requests[rl_last.key] = [count |-> 1, resetAt |-> rl_last.time + rl.windowMs]
  /\ rl_last.op = "reset" => rl_last.key \notin DOMAIN rl.requests
  /\ rl_last.op = "cleanup" =>
       /\ DOMAIN rl.requests = {k \in DOMAIN rl_prev : ~(rl_last.time > rl_prev[k].resetAt)}
       /\ \A k \in DOMAIN rl.requests : rl.requests[k] = rl_prev[k]

C35_Witness ==
  /\ rl_last.op = "check"
  /\ rl_last.fresh
  /\ rl_last.result
  /\ rl_last.key \in DOMAIN rl_prev
  /\ rl_last.time > rl_prev[rl_last.key].resetAt
  /\ rl_prev[rl_last.key].count = 2
  /\ rl.requests[rl_last.key].count = 1

\* the larger of two numbers
Max(a, b) == IF a > b THEN a ELSE b

\* C40: a check that returns false leaves the limiter as it was, and the count
\* of every entry is between 1 and max(1, maxRequests).
C40_CountRange ==
  /\ (rl_last.op = "check" /\ ~rl_last.result) => rl.requests = rl_prev
  /\ \A k \in DOMAIN rl.requests :
       /\ rl.requests[k].count >= 1
       /\ rl.requests[k].count <= Max(1, rl.maxRequests)

C40_Witness ==
  /\ rl_last.op = "check"
  /\ ~rl_last.result
  /\ rl.maxRequests = 0
  /\ rl.requests[rl_last.key].count = 1
  /\ DOMAIN rl.requests = LimiterKeys

====
